---- MODULE Spec2Model ----
(***************************************************************************)
(* Team orchestration engine of basecamp (src-tauri/src/commands/team.rs): *)
(* the tool sandbox, the tool-call loop of one delegation step, plan       *)
(* validation, the event journal and the writer/critic reflection loop.    *)
(*                                                                         *)
(* Strings the code inspects character by character (paths, identifiers,   *)
(* model output) are sequences of one-character strings.  Paths follow the *)
(* Unix rules of std::path: "/" is the only separator, a backslash is an   *)
(* ordinary character of a file name.                                      *)
(***************************************************************************)
EXTENDS Integers, Sequences, FiniteSets, TLC

VARIABLES
    fs,          \* the filesystem the sandbox works on: absolute path -> node
    fs0,         \* the filesystem before the tool call / the step started
    writes,      \* `writes` of run_agent_inference_loop: paths written by tools
    call,        \* the tool call handed to execute_team_tool_call last
    result,      \* what execute_team_tool_call returned for it
    sb_pc,       \* position of the sandbox harness: "ready" | "done" | "off"
    loop_pc,     \* run_agent_inference_loop: "request" | "done" | "error" | "off"
    requests,    \* chat requests sent by the loop so far
    tool_subset, \* the agent's effective tool subset (parse_agent_tools_file)
    offered,     \* names of the tool specs sent with the requests
    response,    \* the last chat response the loop received
    turn_msgs,   \* the tool-role messages pushed after the last response
    final_output,\* `final_output` of the loop
    total_usage, \* `total_usage` of the loop
    running,     \* the execute_agent_step calls in flight, each with its loop
    plan_team,   \* validate_decomposition_plan: the team configuration
    plan_raw,    \* the plan parsed from the supervisor's output
    plan_result, \* what validate_decomposition_plan returned for it
    bus_file,    \* team_bus.jsonl on its own: its characters, or None
    appended,    \* the entries handed to append_team_bus_entry, in order
    read_back,   \* what read_team_bus_entries returned
    sink,        \* the calls of append_team_bus_entry with the events they emitted
    camp,        \* the camp directory: camp.json, team.json, journal, artifacts
    now,         \* now_timestamp_ms()
    uuids,       \* number of ids Uuid::new_v4 has handed out
    refl,        \* the run_reflection_loop call in progress
    last_op,     \* the public operation that returned last, and its result
    ops          \* number of public operations started

sbVars == <<fs, fs0, writes, call, result, sb_pc>>
loopVars == <<loop_pc, requests, tool_subset, offered, response, turn_msgs,
              final_output, total_usage, running>>

planVars == <<plan_team, plan_raw, plan_result>>
busVars == <<bus_file, appended, read_back, sink>>
teamVars == <<camp, now, uuids, refl, last_op, ops>>

vars == <<sbVars, loopVars, planVars, busVars, teamVars>>

-----------------------------------------------------------------------------
(* Bounds of the model *)

MaxPathLen == 3
LinkFuel == 2
MaxCallsPerTurn == 1

(* Constants of the program *)

TEAM_MAX_TOOL_LOOPS == 6

-----------------------------------------------------------------------------
(* Results and options *)

None == <<>>
Some(x) == <<x>>

Ok(v) == [ok |-> TRUE, val |-> v, err |-> ""]
Err(e) == [ok |-> FALSE, val |-> <<>>, err |-> e]

Last(s) == s[Len(s)]
Front(s) == SubSeq(s, 1, Len(s) - 1)

IsPrefix(p, s) == Len(p) <= Len(s) /\ SubSeq(s, 1, Len(p)) = p

StringsUpTo(S, n) == UNION {[1..k -> S] : k \in 0..n}

-----------------------------------------------------------------------------
(* str::trim, str::contains, Path::components *)

IsSpace(c) == c \in {" ", "\t", "\n", "\r"}

RECURSIVE trim_start(_)
trim_start(s) ==
    IF s # <<>> /\ IsSpace(Head(s)) THEN trim_start(Tail(s)) ELSE s

RECURSIVE trim_end(_)
trim_end(s) ==
    IF s # <<>> /\ IsSpace(Last(s)) THEN trim_end(Front(s)) ELSE s

trim(s) == trim_end(trim_start(s))

contains(s, sub) ==
    \E i \in 1..Len(s) : i + Len(sub) - 1 <= Len(s) /\ SubSeq(s, i, i + Len(sub) - 1) = sub

RECURSIVE SplitSlash(_, _)
SplitSlash(s, cur) ==
    IF s = <<>> THEN <<cur>>
    ELSE IF Head(s) = "/" THEN <<cur>> \o SplitSlash(Tail(s), <<>>)
    ELSE SplitSlash(Tail(s), Append(cur, Head(s)))

is_absolute(s) == s # <<>> /\ Head(s) = "/"

\* std::path::Path::components on Unix: a leading "/" is RootDir, ".." is
\* ParentDir, "." is CurDir only as the first component, empty segments and
\* other "." segments are skipped, the rest is Normal.
RECURSIVE ComponentsFrom(_, _)
ComponentsFrom(segs, i) ==
    IF i > Len(segs) THEN <<>>
    ELSE LET seg == segs[i]
             rest == ComponentsFrom(segs, i + 1)
         IN IF seg = <<>> THEN rest
            ELSE IF seg = <<".">> THEN
                (IF i = 1 THEN <<[kind |-> "CurDir", name |-> seg]>> \o rest ELSE rest)
            ELSE IF seg = <<".", ".">> THEN <<[kind |-> "ParentDir", name |-> seg]>> \o rest
            ELSE <<[kind |-> "Normal", name |-> seg]>> \o rest

components(s) ==
    (IF is_absolute(s) THEN <<[kind |-> "RootDir", name |-> <<"/">>]>> ELSE <<>>)
        \o ComponentsFrom(SplitSlash(s, <<>>), 1)

\* the names of the Normal components, in order
NormalNames(s) ==
    LET cs == components(s) IN [i \in 1..Len(cs) |-> cs[i].name]

\* what the operating system makes of a relative path string: empty and "."
\* segments are skipped; a trailing "/" or "/." demands a directory
OsSegs(s) ==
    LET segs == SplitSlash(s, <<>>)
        keep(x) == x # <<>> /\ x # <<".">>
    IN SelectSeq(segs, keep)

TrailingDir(s) ==
    LET segs == SplitSlash(s, <<>>)
    IN Len(segs) > 1 /\ Last(segs) \in {<<>>, <<".">>}

-----------------------------------------------------------------------------
(* validate_relative_path, ensure_within_root *)

\* validate_relative_path without the loop over the components
validate_relative_path_no_components(path, field_name, allow_empty) ==
    LET trimmed == trim(path) IN
    IF trimmed = <<>> THEN
        (IF allow_empty THEN Ok(<<>>) ELSE Err(<<field_name, " is required.">>))
    ELSE IF is_absolute(trimmed) THEN
        Err(<<field_name, " must be a relative path.">>)
    ELSE Ok(trimmed)

validate_relative_path(path, field_name, allow_empty) ==
    LET check(trimmed, comps) ==
            IF trimmed = <<>> THEN
                (IF allow_empty THEN Ok(<<>>) ELSE Err(<<field_name, " is required.">>))
            ELSE IF is_absolute(trimmed) THEN
                Err(<<field_name, " must be a relative path.">>)
            ELSE IF \E i \in 1..Len(comps) : comps[i].kind # "Normal" THEN
                Err(<<field_name, " must not contain traversal segments or absolute path markers.">>)
            ELSE Ok(trimmed)
        trimmed_path(trimmed) == check(trimmed, components(trimmed))
    IN trimmed_path(trim(path))

EscapesMsg == <<"Path escapes the agent context directory.">>

ensure_within_root(root, target) ==
    IF IsPrefix(root, target) THEN Ok(target) ELSE Err(EscapesMsg)

-----------------------------------------------------------------------------
(* The filesystem: a function from absolute paths (sequences of names) to  *)
(* nodes.  <<>> is "/".  A node is a directory, a file with its bytes, or  *)
(* a symbolic link with an absolute target.                                *)

Dir == [kind |-> "dir"]
File(bytes) == [kind |-> "file", data |-> bytes]
Link(to) == [kind |-> "link", to |-> to]

\* fs::canonicalize of cur/segs: every component must exist, links are followed
RECURSIVE Resolve(_, _, _, _)
Resolve(f, cur, segs, fuel) ==
    IF segs = <<>> THEN Ok(cur)
    ELSE LET p == Append(cur, Head(segs)) IN
         IF p \notin DOMAIN f THEN Err("ENOENT")
         ELSE IF f[p].kind = "link" THEN
             (IF fuel = 0 THEN Err("ELOOP")
              ELSE Resolve(f, <<>>, f[p].to \o Tail(segs), fuel - 1))
         ELSE IF f[p].kind = "dir" THEN Resolve(f, p, Tail(segs), fuel)
         ELSE IF Tail(segs) = <<>> THEN Ok(p)
         ELSE Err("ENOTDIR")

\* fs::canonicalize(root.join(rel)) for a relative path string
canonicalize(f, root, rel) ==
    LET checked(r) ==
            IF r.ok /\ TrailingDir(rel) /\ f[r.val].kind # "dir" THEN Err("ENOTDIR") ELSE r
    IN checked(Resolve(f, root, OsSegs(rel), LinkFuel))

is_dir(f, p) == p \in DOMAIN f /\ f[p].kind = "dir"
is_file(f, p) == p \in DOMAIN f /\ f[p].kind = "file"

\* fs::create_dir_all(cur/segs), cur an existing directory: the missing
\* directories are created below the deepest existing one, through links;
\* an existing component that is no directory fails before anything is made
RECURSIVE create_dir_all(_, _, _)
create_dir_all(f, cur, segs) ==
    IF segs = <<>> THEN [ok |-> TRUE, fs |-> f]
    ELSE LET existing(r) ==
                 IF r.ok /\ is_dir(f, r.val) THEN create_dir_all(f, r.val, Tail(segs))
                 ELSE [ok |-> FALSE, fs |-> f]
             step(p) ==
                 IF p \notin DOMAIN f THEN create_dir_all((p :> Dir) @@ f, p, Tail(segs))
                 ELSE existing(Resolve(f, cur, <<Head(segs)>>, LinkFuel))
         IN step(Append(cur, Head(segs)))

\* open(p, O_WRONLY | O_CREAT | O_TRUNC) and write, p's parent a directory:
\* a link in the last component is followed, also when it dangles
RECURSIVE OpenCreate(_, _, _, _)
OpenCreate(f, p, bytes, fuel) ==
    LET through(par) ==
            IF par.ok /\ is_dir(f, par.val)
            THEN OpenCreate(f, Append(par.val, Last(f[p].to)), bytes, fuel - 1)
            ELSE [ok |-> FALSE, fs |-> f]
    IN
    IF p \notin DOMAIN f THEN [ok |-> TRUE, fs |-> (p :> File(bytes)) @@ f]
    ELSE IF f[p].kind = "file" THEN [ok |-> TRUE, fs |-> [f EXCEPT ![p] = File(bytes)]]
    ELSE IF f[p].kind = "dir" THEN [ok |-> FALSE, fs |-> f]
    ELSE IF fuel = 0 \/ f[p].to = <<>> THEN [ok |-> FALSE, fs |-> f]
    ELSE through(Resolve(f, <<>>, Front(f[p].to), fuel - 1))

\* fs::write(root.join(rel), bytes)
fs_write(f, root, rel, bytes) ==
    LET open(segs, par) ==
            IF segs = <<>> \/ TrailingDir(rel) THEN [ok |-> FALSE, fs |-> f]
            ELSE IF par.ok /\ is_dir(f, par.val)
            THEN OpenCreate(f, Append(par.val, Last(segs)), bytes, LinkFuel)
            ELSE [ok |-> FALSE, fs |-> f]
        parent_of(segs) == open(segs, Resolve(f, root, Front(segs), LinkFuel))
    IN parent_of(OsSegs(rel))

\* the names in directory d
Entries(f, d) == {p \in DOMAIN f : Len(p) = Len(d) + 1 /\ IsPrefix(d, p)}

-----------------------------------------------------------------------------
(* resolve_existing_agent_target, resolve_write_agent_target,              *)
(* to_relative_display                                                     *)

resolve_existing_agent_target(f, root, relative, field_name, allow_empty) ==
    LET within(canonical) ==
            IF ~canonical.ok THEN Err(<<"Unable to resolve path: ", canonical.err>>)
            ELSE ensure_within_root(root, canonical.val)
        target(rel) ==
            IF ~rel.ok THEN rel ELSE within(canonicalize(f, root, rel.val))
    IN target(validate_relative_path(relative, field_name, allow_empty))

\* returns the result and the filesystem create_dir_all left behind
resolve_write_agent_target(f, root, relative) ==
    LET within(rel, made, canonical_parent) ==
            IF ~canonical_parent.ok THEN
                [res |-> Err(<<"Unable to resolve parent directory">>), fs |-> made.fs]
            ELSE IF ~ensure_within_root(root, canonical_parent.val).ok THEN
                [res |-> Err(EscapesMsg), fs |-> made.fs]
            ELSE [res |-> Ok(rel.val), fs |-> made.fs]
        created(rel, parent, made) ==
            IF ~made.ok THEN
                [res |-> Err(<<"Unable to create parent directories">>), fs |-> made.fs]
            ELSE within(rel, made, Resolve(made.fs, root, parent, LinkFuel))
        with_parent(rel, parent) == created(rel, parent, create_dir_all(f, root, parent))
        target(rel) ==
            IF ~rel.ok THEN [res |-> rel, fs |-> f]
            ELSE with_parent(rel, Front(NormalNames(rel.val)))
    IN target(validate_relative_path(relative, "path", FALSE))

RECURSIVE JoinSlash(_)
JoinSlash(names) ==
    IF names = <<>> THEN <<>>
    ELSE IF Len(names) = 1 THEN Head(names)
    ELSE Head(names) \o <<"/">> \o JoinSlash(Tail(names))

\* relative.to_string_lossy().replace('\\', "/"), "/" appended to a directory
to_relative_display(f, root, path) ==
    LET slashes(rel) == [i \in 1..Len(rel) |-> IF rel[i] = "\\" THEN "/" ELSE rel[i]]
        shown(display) ==
            Ok(IF is_dir(f, path) /\ display # <<>> /\ Last(display) # "/"
               THEN Append(display, "/") ELSE display)
    IN IF ~IsPrefix(root, path) THEN Err(<<"Resolved path is outside root.">>)
       ELSE shown(slashes(JoinSlash(SubSeq(path, Len(root) + 1, Len(path)))))

-----------------------------------------------------------------------------
(* The tools: read_file_tool, list_files_tool, write_file_tool.  Each      *)
(* returns its Result, the filesystem it leaves and the `writes` list.     *)

\* the printable ASCII characters in byte order: codes 32 to 95, and 97 to 126
AsciiLow ==
    <<" ", "!", "\"", "#", "$", "%", "&", "'", "(", ")", "*", "+",
      ",", "-", ".", "/", "0", "1", "2", "3", "4", "5", "6", "7",
      "8", "9", ":", ";", "<", "=", ">", "?", "@", "A", "B", "C",
      "D", "E", "F", "G", "H", "I", "J", "K", "L", "M", "N", "O",
      "P", "Q", "R", "S", "T", "U", "V", "W", "X", "Y", "Z", "[",
      "\\", "]", "^", "_">>

AsciiHigh ==
    <<"a", "b", "c", "d", "e", "f", "g", "h", "i", "j", "k", "l",
      "m", "n", "o", "p", "q", "r", "s", "t", "u", "v", "w", "x",
      "y", "z", "{", "|", "}", "~">>

\* rank of a character in byte order, for Vec<String>::sort
CharRank(c) ==
    IF c = "\t" THEN 9 ELSE IF c = "\n" THEN 10 ELSE IF c = "\r" THEN 13
    ELSE IF \E i \in 1..64 : AsciiLow[i] = c THEN 31 + (CHOOSE i \in 1..64 : AsciiLow[i] = c)
    ELSE 96 + (CHOOSE i \in 1..30 : AsciiHigh[i] = c)

RECURSIVE StrLess(_, _)
StrLess(a, b) ==
    IF b = <<>> THEN FALSE
    ELSE IF a = <<>> THEN TRUE
    ELSE IF Head(a) = Head(b) THEN StrLess(Tail(a), Tail(b))
    ELSE CharRank(Head(a)) < CharRank(Head(b))

\* list_files_recursive: the relative paths of the files below `current`,
\* every entry canonicalized and checked against the root
RECURSIVE list_files_recursive(_, _, _, _)
list_files_recursive(f, root, current, depth) ==
    LET sub(c) ==
            IF is_dir(f, c) THEN list_files_recursive(f, root, c, depth - 1)
            ELSE Ok(IF is_file(f, c) THEN <<to_relative_display(f, root, c).val>> ELSE <<>>)
        join(below, rest) ==
            IF ~below.ok THEN below
            ELSE IF ~rest.ok THEN rest
            ELSE Ok(below.val \o rest.val)
        RECURSIVE Collect(_)
        entry(es, e, canon) ==
            IF ~canon.ok THEN Err(<<"Unable to resolve context entry">>)
            ELSE IF ~ensure_within_root(root, canon.val).ok THEN Err(EscapesMsg)
            ELSE join(sub(canon.val), Collect(es \ {e}))
        first(es, e) == entry(es, e, Resolve(f, current, <<Last(e)>>, LinkFuel))
        Collect(es) ==
            IF es = {} THEN Ok(<<>>) ELSE first(es, CHOOSE x \in es : TRUE)
    IN IF depth = 0 THEN Err(<<"Unable to read context dir">>)
       ELSE Collect(Entries(f, current))

read_file_tool(f, root, args) ==
    LET read(path, target) ==
            IF ~target.ok THEN target
            ELSE IF ~is_file(f, target.val) THEN Err(<<"Requested path is not a file.">>)
            ELSE Ok([path |-> path, content |-> f[target.val].data])
    IN IF args.path = None THEN Err(<<"read_file requires path string argument.">>)
       ELSE read(args.path[1],
                 resolve_existing_agent_target(f, root, args.path[1], "path", FALSE))

list_files_tool(f, root, args) ==
    LET sorted(path, files) ==
            IF ~files.ok THEN files
            ELSE Ok([path |-> path, files |-> SortSeq(files.val, StrLess)])
        list(path, target) ==
            IF ~target.ok THEN target
            ELSE IF ~is_dir(f, target.val) THEN Err(<<"Requested path is not a directory.">>)
            ELSE sorted(path, list_files_recursive(f, root, target.val, MaxPathLen + 2))
        of_path(path) == list(path, resolve_existing_agent_target(f, root, path, "path", TRUE))
    IN of_path(IF args.path = None THEN <<>> ELSE args.path[1])

to_ascii_lowercase(e) == IF e = "BASE64" THEN "base64" ELSE e

\* general_purpose::STANDARD.decode on the contents the model sends
base64_decode(content) ==
    IF content = <<"e", "A", "=", "=">> THEN Ok(<<"x">>) ELSE Err("Invalid base64 content")

write_file_tool(f, root, args, ws) ==
    IF args.path = None THEN
        [res |-> Err(<<"write_file requires path string argument.">>), fs |-> f, writes |-> ws]
    ELSE IF args.content = None THEN
        [res |-> Err(<<"write_file requires content string argument.">>), fs |-> f, writes |-> ws]
    ELSE
    LET path == args.path[1]
        content == args.content[1]
        encoding == to_ascii_lowercase(IF args.encoding = None THEN "utf-8" ELSE args.encoding[1])
        \* after fs::write: canonicalize the target and check it against the root
        after_write(bytes, written, canonical) ==
            IF ~canonical.ok THEN
                [res |-> Err(<<"Unable to resolve destination path">>), fs |-> written.fs, writes |-> ws]
            ELSE IF ~ensure_within_root(root, canonical.val).ok THEN
                [res |-> Err(EscapesMsg), fs |-> written.fs, writes |-> ws]
            ELSE [res |-> Ok([path |-> path, bytes_written |-> Len(bytes)]),
                  fs |-> written.fs,
                  writes |-> Append(ws, to_relative_display(written.fs, root, canonical.val).val)]
        write(target, bytes, written) ==
            IF ~written.ok THEN
                [res |-> Err(<<"Unable to write file">>), fs |-> written.fs, writes |-> ws]
            ELSE after_write(bytes, written, canonicalize(written.fs, root, target.res.val))
        decode(target, bytes) ==
            IF ~bytes.ok THEN
                [res |-> Err(<<"Invalid base64 content">>), fs |-> target.fs, writes |-> ws]
            ELSE write(target, bytes.val, fs_write(target.fs, root, target.res.val, bytes.val))
        resolved(target) ==
            IF ~target.res.ok THEN [res |-> target.res, fs |-> target.fs, writes |-> ws]
            ELSE decode(target, IF encoding = "base64" THEN base64_decode(content) ELSE Ok(content))
    IN resolved(resolve_write_agent_target(f, root, path))

-----------------------------------------------------------------------------
(* execute_team_tool_call: the JSON string it returns is the record of its *)
(* keys; an error object is a record with the key "error".                 *)

ErrorObject(error, name, id) == [error |-> error, tool |-> name, tool_call_id |-> id]

execute_team_tool_call(f, root, tool_call, ws) ==
    LET id == IF tool_call.id = None THEN "tool-call" ELSE tool_call.id[1]
        keep(res) == [result |-> res, fs |-> f, writes |-> ws]
        dispatch(name, args) ==
            CASE name = "read_file" ->
                    [res |-> read_file_tool(f, root, args), fs |-> f, writes |-> ws]
              [] name = "list_files" ->
                    [res |-> list_files_tool(f, root, args), fs |-> f, writes |-> ws]
              [] name = "write_file" -> write_file_tool(f, root, args, ws)
              [] name = "web_search" ->
                    [res |-> Err(<<"web_search is not available in local deterministic team mode.">>),
                     fs |-> f, writes |-> ws]
              [] OTHER ->
                    [res |-> Err(<<"Unsupported tool">>), fs |-> f, writes |-> ws]
        payload(name, out) ==
            [result |-> IF out.res.ok THEN out.res.val ELSE ErrorObject(out.res.err, name, id),
             fs |-> out.fs, writes |-> out.writes]
    IN
    IF tool_call.name = None THEN
        keep([error |-> <<"Tool call missing function.name">>, tool_call_id |-> id])
    ELSE IF ~tool_call.args.valid THEN
        keep(ErrorObject(<<"Invalid tool arguments JSON">>, tool_call.name[1], id))
    ELSE payload(tool_call.name[1], dispatch(tool_call.name[1], tool_call.args))

IsErrorObject(r) == "error" \in DOMAIN r

-----------------------------------------------------------------------------
(* The sandbox on its own: one tool call against a context directory.      *)

CtxRoot == << <<"ctx">> >>
OutDir == << <<"out">> >>
NameA == <<"a">>
NameAA == <<"a", "a">>

PathChars == {"a", ".", "/", "\\", " "}
PathStrings == StringsUpTo(PathChars, MaxPathLen)

BaseFs ==
    (<<>> :> Dir) @@ (CtxRoot :> Dir) @@ (OutDir :> Dir)
        @@ (Append(OutDir, NameA) :> File(<<"s">>))

\* what the context directory may hold when a call arrives: nothing, files
\* and directories written by earlier calls, and links put there by the user
ContextContents ==
    { <<>> :> Dir,
      Append(CtxRoot, NameA) :> File(<<"o">>),
      (Append(CtxRoot, NameA) :> Dir) @@ (CtxRoot \o <<NameA, NameA>> :> File(<<"o">>)),
      Append(CtxRoot, NameA) :> Link(OutDir),
      Append(CtxRoot, NameA) :> Link(Append(OutDir, NameA)),
      Append(CtxRoot, NameA) :> Link(Append(OutDir, NameAA)),
      (Append(CtxRoot, NameAA) :> Dir) @@ (Append(CtxRoot, NameA) :> Link(Append(CtxRoot, NameAA))) }

InitialFs == {c @@ BaseFs : c \in ContextContents}

ArgsOf(path, content, encoding) ==
    [valid |-> TRUE, path |-> path, content |-> content, encoding |-> encoding]

OptPaths == {None} \cup {Some(p) : p \in PathStrings}
OptContents == {None, Some(<<"x">>), Some(<<"e", "A", "=", "=">>)}
OptEncodings == {None, Some("BASE64")}

SandboxCalls ==
    {[id |-> Some("c1"), name |-> Some(n), args |-> ArgsOf(p, None, None)] :
        n \in {"read_file", "list_files"}, p \in OptPaths}
    \cup {[id |-> Some("c1"), name |-> Some("write_file"), args |-> ArgsOf(p, c, e)] :
        p \in OptPaths, c \in OptContents, e \in OptEncodings}
    \cup {[id |-> i, name |-> n, args |-> a] :
        i \in {None, Some("c1")},
        n \in {None, Some("web_search"), Some("shell"), Some("write_file")},
        a \in {[valid |-> FALSE], ArgsOf(Some(<<"a">>), Some(<<"x">>), None)}}

PlanOff ==
    /\ plan_team = <<>>
    /\ plan_raw = <<>>
    /\ plan_result = <<>>

BusOff ==
    /\ bus_file = <<>>
    /\ appended = <<>>
    /\ read_back = <<>>
    /\ sink = <<>>

TeamOff ==
    /\ camp = <<>>
    /\ now = 0
    /\ uuids = 0
    /\ refl = <<>>
    /\ last_op = <<>>
    /\ ops = 0

LoopOff ==
    /\ loop_pc = "off"
    /\ requests = 0
    /\ tool_subset = <<>>
    /\ offered = <<>>
    /\ response = None
    /\ turn_msgs = <<>>
    /\ final_output = <<>>
    /\ total_usage = [input |-> 0, output |-> 0]
    /\ running = <<>>

SandboxOff ==
    /\ fs = <<>>
    /\ fs0 = <<>>
    /\ writes = <<>>
    /\ call = None
    /\ result = None
    /\ sb_pc = "off"

SandboxInit ==
    /\ LoopOff /\ PlanOff /\ BusOff /\ TeamOff
    /\ fs \in InitialFs
    /\ fs0 = fs
    /\ writes = <<>>
    /\ call = None
    /\ result = None
    /\ sb_pc = "ready"

ExecuteToolCall ==
    /\ sb_pc = "ready"
    /\ \E tc \in SandboxCalls :
        \E out \in {execute_team_tool_call(fs, CtxRoot, tc, writes)} :
        /\ call' = Some(tc)
        /\ result' = Some(out.result)
        /\ fs' = out.fs
        /\ writes' = out.writes
    /\ sb_pc' = "done"
    /\ UNCHANGED <<fs0, loopVars, planVars, busVars, teamVars>>

SandboxNext == ExecuteToolCall

SpecSandbox == SandboxInit /\ [][SandboxNext]_vars


-----------------------------------------------------------------------------
(* Properties of the sandbox *)

\* everything that is not the context root or below it
Outside(f) == [p \in {q \in DOMAIN f : ~IsPrefix(CtxRoot, q)} |-> f[p]]

CallIs(names) == sb_pc = "done" /\ call[1].name # None /\ call[1].name[1] \in names

HasPath == call[1].args.valid /\ call[1].args.path # None

CallPath == call[1].args.path[1]

\* C1 (as claimed): a write_file tool call never creates or modifies anything
\* outside the canonicalized context root, whatever the path argument and
\* whatever the context directory holds, links included.
C1_WriteNeverLeavesRoot ==
    CallIs({"write_file"}) => Outside(fs) = Outside(fs0)

\* the path argument names a ".." component, or starts with "/"
HasParentDirOrRoot(path) ==
    \/ is_absolute(path)
    \/ \E i \in 1..Len(SplitSlash(trim(path), <<>>)) :
           SplitSlash(trim(path), <<>>)[i] = <<".", ".">>

\* C2 (as claimed): a read_file, list_files or write_file call whose path
\* contains "..", starts with "/" or contains a backslash returns an error
\* object and leaves the filesystem unchanged.
C2_Original ==
    (CallIs({"read_file", "list_files", "write_file"}) /\ HasPath
        /\ (\/ contains(CallPath, <<".", ".">>)
            \/ is_absolute(CallPath)
            \/ contains(CallPath, <<"\\">>)))
    => (IsErrorObject(result[1]) /\ fs = fs0)

\* C2 (amended): a read_file, list_files or write_file call whose path has a
\* ".." component or starts with "/" returns an error object and leaves the
\* filesystem unchanged.
C2_TraversalRejected ==
    (CallIs({"read_file", "list_files", "write_file"}) /\ HasPath
        /\ HasParentDirOrRoot(CallPath))
    => (IsErrorObject(result[1]) /\ fs = fs0)

\* C2 witness: a write_file call with content for the path "../" was refused
C2_Witness ==
    /\ CallIs({"write_file"}) /\ HasPath
    /\ CallPath = <<".", ".", "/">>
    /\ call[1].args.content # None
    /\ IsErrorObject(result[1])

-----------------------------------------------------------------------------
(* normalize_tool_subset, tool_specs_for_subset *)

\* raw.trim().to_ascii_lowercase() on the tool names the model draws
NormalizeToolName(raw) ==
    CASE raw = " Read_File " -> "read_file"
      [] raw = "WRITE_FILE" -> "write_file"
      [] raw = "  " -> ""
      [] OTHER -> raw

RECURSIVE NormalizeFrom(_, _)
NormalizeFrom(values, acc) ==
    IF values = <<>> THEN acc
    ELSE LET normalized == NormalizeToolName(Head(values)) IN
         IF normalized = "" \/ \E i \in 1..Len(acc) : acc[i] = normalized
         THEN NormalizeFrom(Tail(values), acc)
         ELSE NormalizeFrom(Tail(values), Append(acc, normalized))

normalize_tool_subset(values) == NormalizeFrom(values, <<>>)

RecognizedTools == {"read_file", "list_files", "write_file", "web_search"}

tool_spec_for_name(name) == IF name \in RecognizedTools THEN Some(name) ELSE None

tool_specs_for_subset(subset) ==
    LET known(n) == tool_spec_for_name(n) # None IN SelectSeq(subset, known)

-----------------------------------------------------------------------------
(* run_agent_inference_loop.  One action per chat request: the response,   *)
(* the tool calls it carries executed one after the other, and the return  *)
(* when the loop ends.                                                     *)

usage_or_zero(u) == IF u = None THEN 0 ELSE u[1]

\* the usage of the latest response taking the place of the total
accumulate_usage_latest(into, usage) ==
    [input |-> usage_or_zero(usage.prompt_tokens),
     output |-> usage_or_zero(usage.completion_tokens)]

accumulate_usage(into, usage) ==
    [input |-> into.input + usage_or_zero(usage.prompt_tokens),
     output |-> into.output + usage_or_zero(usage.completion_tokens)]

\* the loop without its bound: it leaves only on a response without tool calls
loop_ends_unbounded(tool_calls, iteration) == tool_calls = <<>>

\* the loop leaves after this response: `break`, or the range 0..6 is used up
loop_ends(tool_calls, iteration) ==
    tool_calls = <<>> \/ iteration >= TEAM_MAX_TOOL_LOOPS

\* the tool calls of a turn all executed on the files the turn found
RECURSIVE run_tool_calls_at_once(_, _, _, _)
run_tool_calls_at_once(f, ws, calls, msgs) ==
    IF calls = <<>> THEN [fs |-> f, writes |-> ws, msgs |-> msgs]
    ELSE LET msg(tc, out) ==
                 [role |-> "tool",
                  tool_call_id |-> IF tc.id = None THEN "tool-uuid" ELSE tc.id[1],
                  name |-> IF tc.name = None THEN "unknown_tool" ELSE tc.name[1],
                  content |-> out.result]
             merged(tc, out, rest) ==
                 [fs |-> rest.fs @@ out.fs, writes |-> out.writes \o SubSeq(rest.writes, Len(ws) + 1, Len(rest.writes)),
                  msgs |-> rest.msgs]
             pushed(tc, out) ==
                 merged(tc, out, run_tool_calls_at_once(f, ws, Tail(calls), Append(msgs, msg(tc, out))))
         IN pushed(Head(calls), execute_team_tool_call(f, CtxRoot, Head(calls), ws))

\* for tool_call in assistant_tool_calls: execute, push the tool message
RECURSIVE run_tool_calls(_, _, _, _)
run_tool_calls(f, ws, calls, msgs) ==
    IF calls = <<>> THEN [fs |-> f, writes |-> ws, msgs |-> msgs]
    ELSE LET msg(tc, out) ==
                 [role |-> "tool",
                  tool_call_id |-> IF tc.id = None THEN "tool-uuid" ELSE tc.id[1],
                  name |-> IF tc.name = None THEN "unknown_tool" ELSE tc.name[1],
                  content |-> out.result]
             pushed(tc, out) ==
                 run_tool_calls(out.fs, out.writes, Tail(calls), Append(msgs, msg(tc, out)))
         IN pushed(Head(calls), execute_team_tool_call(f, CtxRoot, Head(calls), ws))

RawSubsets ==
    { <<" Read_File ", "list_files", "read_file">>,
      <<"WRITE_FILE", "shell", "  ">> }

\* what the model answers: a text with its usage, and the tool calls
LoopTexts ==
    { [output_text |-> <<>>,
       usage |-> [prompt_tokens |-> None, completion_tokens |-> None]],
      [output_text |-> <<" ", "t">>,
       usage |-> [prompt_tokens |-> Some(1), completion_tokens |-> Some(2)]] }

LoopCalls ==
    { [id |-> Some("c1"), name |-> Some("read_file"), args |-> ArgsOf(Some(<<"a">>), None, None)],
      [id |-> Some("c2"), name |-> Some("write_file"),
       args |-> ArgsOf(Some(<<"a">>), Some(<<"x">>), None)],
      [id |-> None, name |-> Some("web_search"), args |-> ArgsOf(None, None, None)] }

ReadA == CHOOSE c \in LoopCalls : c.name = Some("read_file")
WriteA == CHOOSE c \in LoopCalls : c.name = Some("write_file")
SearchWeb == CHOOSE c \in LoopCalls : c.name = Some("web_search")

\* turns of two tool calls: a file written and read, in both orders, and a
\* call that fails before a write
TwoCallTurns == {<<WriteA, ReadA>>, <<ReadA, WriteA>>, <<SearchWeb, WriteA>>}

Responses ==
    {[output_text |-> t.output_text, usage |-> t.usage, tool_calls |-> c] :
        t \in LoopTexts, c \in UNION {[1..k -> LoopCalls] : k \in 0..MaxCallsPerTurn}}
    \cup {[output_text |-> <<>>, usage |-> [prompt_tokens |-> Some(1), completion_tokens |-> None],
           tool_calls |-> c] : c \in TwoCallTurns}

LoopInit ==
    /\ PlanOff /\ BusOff /\ TeamOff
    /\ fs = BaseFs
    /\ fs0 = fs
    /\ writes = <<>>
    /\ call = None
    /\ result = None
    /\ sb_pc = "off"
    /\ loop_pc = "request"
    /\ requests = 0
    /\ \E raw \in RawSubsets : tool_subset = normalize_tool_subset(raw)
    /\ offered = tool_specs_for_subset(tool_subset)
    /\ response = None
    /\ turn_msgs = <<>>
    /\ final_output = <<>>
    /\ total_usage = [input |-> 0, output |-> 0]
    /\ running = <<>>

\* the chat-completion service answers the request
ChatResponse ==
    /\ loop_pc = "request"
    /\ \E r \in Responses :
        \E ran \in {run_tool_calls(fs, writes, r.tool_calls, <<>>)} :
        /\ requests' = requests + 1
        /\ response' = Some(r)
        /\ total_usage' = accumulate_usage(total_usage, r.usage)
        /\ final_output' = trim(r.output_text)
        /\ fs' = ran.fs
        /\ writes' = ran.writes
        /\ turn_msgs' = ran.msgs
        /\ loop_pc' = IF loop_ends(r.tool_calls, requests + 1) THEN "done" ELSE "request"
    /\ UNCHANGED <<fs0, call, result, sb_pc, tool_subset, offered, running>>
    /\ UNCHANGED <<planVars, busVars, teamVars>>

\* the chat-completion service fails: `.await?` returns the error
ChatFails ==
    /\ loop_pc = "request"
    /\ requests' = requests + 1
    /\ loop_pc' = "error"
    /\ UNCHANGED <<sbVars, tool_subset, offered, response, turn_msgs, final_output, total_usage,
                   running>>
    /\ UNCHANGED <<planVars, busVars, teamVars>>

LoopNext == ChatResponse \/ ChatFails

SpecLoop == LoopInit /\ [][LoopNext]_vars

-----------------------------------------------------------------------------
(* Properties of the tool-call loop *)

SandboxTools == {"read_file", "list_files", "write_file"}

InSubset(name) == \E j \in 1..Len(tool_subset) : tool_subset[j] = name

\* C3 (as claimed): the loop executes only tool calls that name a tool of the
\* agent's effective tool subset: no tool outside the subset returns a result
\* from the sandbox, and an agent whose subset does not contain write_file
\* never causes a file to be written.
C3_OnlySubsetToolsRun ==
    /\ \A i \in 1..Len(turn_msgs) :
           (turn_msgs[i].name \in SandboxTools /\ ~IsErrorObject(turn_msgs[i].content))
               => InSubset(turn_msgs[i].name)
    /\ ~InSubset("write_file") => (fs = fs0 /\ writes = <<>>)

LoopInv ==
    /\ requests <= TEAM_MAX_TOOL_LOOPS
    /\ loop_pc = "request" => requests < TEAM_MAX_TOOL_LOOPS
    /\ loop_pc \in {"done", "error"} => requests >= 1
    \* a further request is sent only after a response that carried tool calls
    /\ (loop_pc = "request" /\ requests > 0) => response[1].tool_calls # <<>>
    \* the loop returns before the bound only on a response without tool calls
    /\ (loop_pc = "done" /\ requests < TEAM_MAX_TOOL_LOOPS) => response[1].tool_calls = <<>>
    \* a last response that still carries tool calls was the sixth; the loop
    \* returns Ok with the trimmed text of that response
    /\ (loop_pc # "error" /\ response # None /\ response[1].tool_calls # <<>>
            /\ requests = TEAM_MAX_TOOL_LOOPS)
        => (loop_pc = "done" /\ final_output = trim(response[1].output_text))
    /\ loop_pc = "done" => final_output = trim(response[1].output_text)

\* C4: the tool-call loop of one step always terminates: every step of it
\* sends one more chat request, it sends between 1 and 6 of them, it stops at
\* the first response without tool calls, and when every response carries a
\* tool call it returns Ok after exactly 6 requests with the text of the last
\* response as the final output.
C4_LoopBounded ==
    /\ []LoopInv
    /\ [][/\ loop_pc = "request"
          /\ requests' = requests + 1
          /\ loop_pc' \in {"request", "done", "error"}]_vars

\* C4 witness: six responses with tool calls, then a successful return
C4_Witness ==
    /\ loop_pc = "done"
    /\ requests = TEAM_MAX_TOOL_LOOPS
    /\ response[1].tool_calls # <<>>
    /\ final_output = <<"t">>

-----------------------------------------------------------------------------
(* validate_simple_identifier, validate_decomposition_plan *)

validate_simple_identifier(value, field_name) ==
    LET check(trimmed) ==
            IF trimmed = <<>> THEN Err(<<field_name, " is required.">>)
            ELSE IF \/ contains(trimmed, <<"/">>)
                    \/ contains(trimmed, <<"\\">>)
                    \/ contains(trimmed, <<".", ".">>)
            THEN Err(<<field_name, " must not contain path separators or traversal segments.">>)
            ELSE Ok(trimmed)
    IN check(trim(value))

SeqToSet(s) == {s[i] : i \in 1..Len(s)}

\* for dep in &step.depends_on: validate, keep the first occurrence of each
RECURSIVE unique_deps(_, _)
unique_deps(deps, acc) ==
    IF deps = <<>> THEN Ok(acc)
    ELSE LET push(normalized) ==
                 IF ~normalized.ok THEN normalized
                 ELSE IF normalized.val \in SeqToSet(acc) THEN unique_deps(Tail(deps), acc)
                 ELSE unique_deps(Tail(deps), Append(acc, normalized.val))
         IN push(validate_simple_identifier(Head(deps), "depends_on"))

\* the first loop of validate_decomposition_plan over plan.steps[i..]; `done`
\* holds the steps already normalized, `step_ids` their ids
RECURSIVE validate_steps(_, _, _, _)
validate_steps(roster, steps, step_ids, done) ==
    IF steps = <<>> THEN Ok(done)
    ELSE LET step == Head(steps)
             with_deps(step_id, assigned_to, deps) ==
                 IF ~deps.ok THEN deps
                 ELSE validate_steps(roster, Tail(steps), step_ids \cup {step_id},
                        Append(done,
                          [step_id |-> step_id,
                           assigned_to |-> assigned_to,
                           instruction |-> step.instruction,
                           depends_on |-> deps.val,
                           expected_output |->
                               IF trim(step.expected_output) = <<>>
                               THEN step_id \o <<".", "m", "d">>
                               ELSE step.expected_output]))
             assigned(step_id, assigned_to) ==
                 IF ~assigned_to.ok THEN assigned_to
                 ELSE IF assigned_to.val \notin roster THEN
                     Err(<<"Decomposition step ", step_id,
                           " assigned to unknown agent ", assigned_to.val>>)
                 ELSE IF trim(step.instruction) = <<>> THEN
                     Err(<<"Decomposition step ", step_id, " is missing instruction text.">>)
                 ELSE with_deps(step_id, assigned_to.val, unique_deps(step.depends_on, <<>>))
             identified(step_id) ==
                 IF ~step_id.ok THEN step_id
                 ELSE IF step_id.val \in step_ids THEN
                     Err(<<"Duplicate step_id ", step_id.val, " in decomposition plan.">>)
                 ELSE assigned(step_id.val,
                               validate_simple_identifier(step.assigned_to, "assigned_to"))
         IN identified(validate_simple_identifier(step.step_id, "step_id"))

\* the second loop looking at the first step only
unknown_dependency_first_step(steps, step_ids) ==
    LET bad == {j \in 1..Len(steps[1].depends_on) : steps[1].depends_on[j] \notin step_ids}
        first == CHOOSE b \in bad : \A c \in bad : b <= c
    IN IF bad = {} THEN None
       ELSE Some(<<"Step ", steps[1].step_id, " depends on unknown step ",
                   steps[1].depends_on[first]>>)

\* the second loop: the first dependency that names no step of the plan
unknown_dependency(steps, step_ids) ==
    LET deps == UNION {{<<i, j>> : j \in 1..Len(steps[i].depends_on)} : i \in 1..Len(steps)}
        bad == {d \in deps : steps[d[1]].depends_on[d[2]] \notin step_ids}
        first == CHOOSE b \in bad :
                    \A c \in bad : b[1] < c[1] \/ (b[1] = c[1] /\ b[2] <= c[2])
    IN IF bad = {} THEN None
       ELSE Some(<<"Step ", steps[first[1]].step_id, " depends on unknown step ",
                   steps[first[1]].depends_on[first[2]]>>)

TaskSummaryDefault == <<"T", "a", "s", "k", " ", "d", "e", "c", "o", "m", "p", "o", "s", "i", "t", "i", "o", "n">>

\* step i of the plan names step k among its dependencies
DependsOn(steps, i, k) ==
    \E j \in 1..Len(steps[i].depends_on) : trim(steps[i].depends_on[j]) = trim(steps[k].step_id)

\* some chain of dependencies leads from a step back to itself
Cyclic(steps) ==
    \E m \in 1..Len(steps) :
        \E chain \in [1..m -> 1..Len(steps)] :
            \A k \in 1..m : DependsOn(steps, chain[k], chain[(k % m) + 1])

\* validate_decomposition_plan with a third loop that refuses a cycle
validate_decomposition_plan_acyclic(team_config, plan) ==
    LET summary == IF trim(plan.task_summary) = <<>> THEN TaskSummaryDefault
                   ELSE plan.task_summary
        roster == {team_config.agents[i].id : i \in 1..Len(team_config.agents)}
        with_ids(steps, unknown) ==
            IF unknown # None THEN Err(unknown[1])
            ELSE IF Cyclic(steps) THEN Err(<<"Decomposition plan has a dependency cycle.">>)
            ELSE Ok([task_summary |-> summary, steps |-> steps,
                     reflection_required |-> plan.reflection_required])
        checked(steps) ==
            IF ~steps.ok THEN steps
            ELSE with_ids(steps.val,
                          unknown_dependency(steps.val,
                              {steps.val[i].step_id : i \in 1..Len(steps.val)}))
    IN IF plan.steps = <<>> THEN
           Err(<<"Supervisor returned no steps in decomposition plan.">>)
       ELSE checked(validate_steps(roster, plan.steps, {}, <<>>))

\* validate_decomposition_plan without its second loop
validate_decomposition_plan_unchecked_deps(team_config, plan) ==
    LET summary == IF trim(plan.task_summary) = <<>> THEN TaskSummaryDefault
                   ELSE plan.task_summary
        roster == {team_config.agents[i].id : i \in 1..Len(team_config.agents)}
        checked(steps) ==
            IF ~steps.ok THEN steps
            ELSE Ok([task_summary |-> summary, steps |-> steps.val,
                     reflection_required |-> plan.reflection_required])
    IN IF plan.steps = <<>> THEN
           Err(<<"Supervisor returned no steps in decomposition plan.">>)
       ELSE checked(validate_steps(roster, plan.steps, {}, <<>>))

validate_decomposition_plan(team_config, plan) ==
    LET summary == IF trim(plan.task_summary) = <<>> THEN TaskSummaryDefault
                   ELSE plan.task_summary
        roster == {team_config.agents[i].id : i \in 1..Len(team_config.agents)}
        with_ids(steps, unknown) ==
            IF unknown # None THEN Err(unknown[1])
            ELSE Ok([task_summary |-> summary, steps |-> steps,
                     reflection_required |-> plan.reflection_required])
        checked(steps) ==
            IF ~steps.ok THEN steps
            ELSE with_ids(steps.val,
                          unknown_dependency(steps.val,
                              {steps.val[i].step_id : i \in 1..Len(steps.val)}))
    IN IF plan.steps = <<>> THEN
           Err(<<"Supervisor returned no steps in decomposition plan.">>)
       ELSE checked(validate_steps(roster, plan.steps, {}, <<>>))

-----------------------------------------------------------------------------
(* Plan validation on its own: a roster and a plan as the supervisor may   *)
(* return it, validated once.                                              *)

MaxSteps == 2

PlanRosters ==
    { [agents |-> <<[id |-> <<"w">>]>>],
      [agents |-> <<[id |-> <<"w">>], [id |-> <<"x">>]>>] }

RawStepIds == { <<"s">>, <<" ", "s", " ">>, <<"t">> }
RawAssignees == { <<"w", " ">>, <<"x">> }
RawTexts ==
    { [instruction |-> <<"i">>, expected_output |-> <<" ">>],
      [instruction |-> <<" ">>, expected_output |-> <<"o">>] }
RawDeps ==
    { <<>>,
      << <<"s", " ">>, <<" ", "s">> >>,
      << <<"u">> >>,
      << <<"t">> >>,
      << <<".", ".">> >> }

RawSteps ==
    {[step_id |-> s, assigned_to |-> a, instruction |-> t.instruction,
      depends_on |-> d, expected_output |-> t.expected_output] :
        s \in RawStepIds, a \in RawAssignees, t \in RawTexts, d \in RawDeps}

RawPlans ==
    {[task_summary |-> IF Len(steps) = 1 THEN <<" ">> ELSE <<"m">>,
      steps |-> steps, reflection_required |-> FALSE] :
        steps \in UNION {[1..k -> RawSteps] : k \in 0..MaxSteps}}

PlanInit ==
    /\ SandboxOff /\ LoopOff /\ BusOff /\ TeamOff
    /\ plan_team \in PlanRosters
    /\ plan_raw \in RawPlans
    /\ plan_result = None

ValidatePlan ==
    /\ plan_result = None
    /\ plan_result' = Some(validate_decomposition_plan(plan_team, plan_raw))
    /\ UNCHANGED <<plan_team, plan_raw, sbVars, loopVars, busVars, teamVars>>

PlanNext == ValidatePlan

SpecPlan == PlanInit /\ [][PlanNext]_vars

PlanReturned == plan_result # None /\ plan_result[1].ok

\* C5: every plan validate_decomposition_plan returns has every step assigned
\* to an id of the roster, every depends_on entry naming a step of the plan,
\* and pairwise distinct step ids.
C5_ValidatedPlanIsConsistent ==
    PlanReturned =>
        LET plan == plan_result[1].val
            roster == {plan_team.agents[i].id : i \in 1..Len(plan_team.agents)}
            ids == {plan.steps[i].step_id : i \in 1..Len(plan.steps)}
        IN /\ \A i \in 1..Len(plan.steps) :
                /\ plan.steps[i].assigned_to \in roster
                /\ \A j \in 1..Len(plan.steps[i].depends_on) :
                       plan.steps[i].depends_on[j] \in ids
           /\ \A i, j \in 1..Len(plan.steps) :
                  i # j => plan.steps[i].step_id # plan.steps[j].step_id

\* C5 witness: a plan of two steps is returned, the second depending on the
\* first, whose id the supervisor wrote with blanks around it
C5_Witness ==
    /\ PlanReturned
    /\ Len(plan_raw.steps) = 2
    /\ plan_raw.steps[1].step_id = <<" ", "s", " ">>
    /\ plan_result[1].val.steps[1].step_id = <<"s">>
    /\ plan_result[1].val.steps[2].depends_on = << <<"s">> >>


-----------------------------------------------------------------------------
(* serde_json: a Value is null, a bool, an integer, a string, an array or  *)
(* a map; a map (BTreeMap) is the sequence of its <<key, value>> pairs in   *)
(* key order.  to_string writes compact JSON text, from_str parses it.     *)

JNull == [t |-> "null"]
JBool(b) == [t |-> "bool", v |-> b]
JNum(n) == [t |-> "num", v |-> n]
JStr(s) == [t |-> "str", v |-> s]
JArr(a) == [t |-> "arr", v |-> a]
JObj(m) == [t |-> "obj", v |-> m]

\* BTreeMap::insert: the pairs stay ordered by key, a present key is replaced
RECURSIVE map_insert(_, _, _)
map_insert(m, k, v) ==
    IF m = <<>> THEN << <<k, v>> >>
    ELSE IF Head(m)[1] = k THEN << <<k, v>> >> \o Tail(m)
    ELSE IF StrLess(k, Head(m)[1]) THEN << <<k, v>> >> \o m
    ELSE <<Head(m)>> \o map_insert(Tail(m), k, v)

RECURSIVE map_from(_, _)
map_from(pairs, m) ==
    IF pairs = <<>> THEN m
    ELSE map_from(Tail(pairs), map_insert(m, Head(pairs)[1], Head(pairs)[2]))

map_has(m, k) == \E i \in 1..Len(m) : m[i][1] = k
map_get(m, k) == m[CHOOSE i \in 1..Len(m) : m[i][1] = k][2]

DigitChars == <<"0", "1", "2", "3", "4", "5", "6", "7", "8", "9">>

RECURSIVE write_digits(_)
write_digits(n) ==
    IF n < 10 THEN <<DigitChars[n + 1]>>
    ELSE write_digits(n \div 10) \o <<DigitChars[(n % 10) + 1]>>

write_int(n) == IF n < 0 THEN <<"-">> \o write_digits(0 - n) ELSE write_digits(n)

\* a string between quotes: quote, backslash and control characters escaped
RECURSIVE escape_str(_)
escape_str(s) ==
    IF s = <<>> THEN <<>>
    ELSE (CASE Head(s) = "\"" -> <<"\\", "\"">>
            [] Head(s) = "\\" -> <<"\\", "\\">>
            [] Head(s) = "\n" -> <<"\\", "n">>
            [] Head(s) = "\r" -> <<"\\", "r">>
            [] Head(s) = "\t" -> <<"\\", "t">>
            [] OTHER -> <<Head(s)>>) \o escape_str(Tail(s))

write_str(s) == <<"\"">> \o escape_str(s) \o <<"\"">>

RECURSIVE write_value(_)
RECURSIVE write_elements(_)
RECURSIVE write_members(_)

write_elements(a) ==
    IF a = <<>> THEN <<>>
    ELSE write_value(Head(a))
             \o (IF Tail(a) = <<>> THEN <<>> ELSE <<",">> \o write_elements(Tail(a)))

write_members(m) ==
    IF m = <<>> THEN <<>>
    ELSE write_str(Head(m)[1]) \o <<":">> \o write_value(Head(m)[2])
             \o (IF Tail(m) = <<>> THEN <<>> ELSE <<",">> \o write_members(Tail(m)))

write_value(v) ==
    CASE v.t = "null" -> <<"n", "u", "l", "l">>
      [] v.t = "bool" -> (IF v.v THEN <<"t", "r", "u", "e">> ELSE <<"f", "a", "l", "s", "e">>)
      [] v.t = "num" -> write_int(v.v)
      [] v.t = "str" -> write_str(v.v)
      [] v.t = "arr" -> <<"[">> \o write_elements(v.v) \o <<"]">>
      [] v.t = "obj" -> <<"{">> \o write_members(v.v) \o <<"}">>

NoParse == [ok |-> FALSE, val |-> <<>>, next |-> 0]
Parsed(v, next) == [ok |-> TRUE, val |-> v, next |-> next]

RECURSIVE skip_ws(_, _)
skip_ws(s, i) == IF i <= Len(s) /\ IsSpace(s[i]) THEN skip_ws(s, i + 1) ELSE i

\* the literal `word` at position i
parse_literal(s, i, word, v) ==
    IF i + Len(word) - 1 <= Len(s) /\ SubSeq(s, i, i + Len(word) - 1) = word
    THEN Parsed(v, i + Len(word)) ELSE NoParse

\* the characters of a string up to its closing quote, i behind the opening one
RECURSIVE parse_str_chars(_, _, _)
parse_str_chars(s, i, acc) ==
    IF i > Len(s) THEN NoParse
    ELSE IF s[i] = "\"" THEN Parsed(acc, i + 1)
    ELSE IF s[i] \in {"\n", "\r", "\t"} THEN NoParse
    ELSE IF s[i] = "\\" THEN
        (IF i + 1 > Len(s) THEN NoParse
         ELSE CASE s[i + 1] = "\"" -> parse_str_chars(s, i + 2, Append(acc, "\""))
                [] s[i + 1] = "\\" -> parse_str_chars(s, i + 2, Append(acc, "\\"))
                [] s[i + 1] = "/" -> parse_str_chars(s, i + 2, Append(acc, "/"))
                [] s[i + 1] = "n" -> parse_str_chars(s, i + 2, Append(acc, "\n"))
                [] s[i + 1] = "r" -> parse_str_chars(s, i + 2, Append(acc, "\r"))
                [] s[i + 1] = "t" -> parse_str_chars(s, i + 2, Append(acc, "\t"))
                [] OTHER -> NoParse)
    ELSE parse_str_chars(s, i + 1, Append(acc, s[i]))

parse_str(s, i) ==
    IF i <= Len(s) /\ s[i] = "\"" THEN parse_str_chars(s, i + 1, <<>>) ELSE NoParse

IsDigit(c) == \E d \in 1..10 : DigitChars[d] = c
DigitValue(c) == (CHOOSE d \in 1..10 : DigitChars[d] = c) - 1

RECURSIVE parse_digits(_, _, _)
parse_digits(s, i, n) ==
    IF i <= Len(s) /\ IsDigit(s[i]) THEN parse_digits(s, i + 1, 10 * n + DigitValue(s[i]))
    ELSE Parsed(n, i)

\* an integer: no leading zero, no fraction, no exponent
parse_int(s, i) ==
    LET negated(p) == IF p.ok THEN Parsed(0 - p.val, p.next) ELSE p
        digits(j) ==
            IF j > Len(s) \/ ~IsDigit(s[j]) THEN NoParse
            ELSE IF s[j] = "0" /\ j < Len(s) /\ IsDigit(s[j + 1]) THEN NoParse
            ELSE parse_digits(s, j, 0)
        whole(p) ==
            IF p.ok /\ p.next <= Len(s) /\ s[p.next] \in {".", "e", "E"} THEN NoParse ELSE p
    IN IF i <= Len(s) /\ s[i] = "-" THEN whole(negated(digits(i + 1))) ELSE whole(digits(i))

RECURSIVE parse_value(_, _)
RECURSIVE parse_elements(_, _, _)
RECURSIVE parse_members(_, _, _)

\* the elements of an array, i behind "[" or behind a ","
parse_elements(s, i, acc) ==
    LET after(e, j) ==
            IF j > Len(s) THEN NoParse
            ELSE IF s[j] = "]" THEN Parsed(Append(acc, e), j + 1)
            ELSE IF s[j] = "," THEN parse_elements(s, skip_ws(s, j + 1), Append(acc, e))
            ELSE NoParse
        element(e) == IF ~e.ok THEN NoParse ELSE after(e.val, skip_ws(s, e.next))
    IN element(parse_value(s, i))

\* the members of an object, i behind "{" or behind a ","
parse_members(s, i, acc) ==
    LET after(k, v, j) ==
            IF j > Len(s) THEN NoParse
            ELSE IF s[j] = "}" THEN Parsed(Append(acc, <<k, v>>), j + 1)
            ELSE IF s[j] = "," THEN parse_members(s, skip_ws(s, j + 1), Append(acc, <<k, v>>))
            ELSE NoParse
        member(k, v) == IF ~v.ok THEN NoParse ELSE after(k, v.val, skip_ws(s, v.next))
        colon(k, j) ==
            IF j > Len(s) \/ s[j] # ":" THEN NoParse
            ELSE member(k, parse_value(s, skip_ws(s, j + 1)))
        key(k) == IF ~k.ok THEN NoParse ELSE colon(k.val, skip_ws(s, k.next))
    IN key(parse_str(s, i))

\* a value at position i; an object is returned as its members in text order
parse_value(s, i) ==
    LET str(p) == IF p.ok THEN Parsed(JStr(p.val), p.next) ELSE p
        num(p) == IF p.ok THEN Parsed(JNum(p.val), p.next) ELSE p
        arr(p) == IF p.ok THEN Parsed(JArr(p.val), p.next) ELSE p
        obj(p) == IF p.ok THEN Parsed([t |-> "members", v |-> p.val], p.next) ELSE p
        open_arr(j) ==
            IF j <= Len(s) /\ s[j] = "]" THEN Parsed(JArr(<<>>), j + 1)
            ELSE arr(parse_elements(s, j, <<>>))
        open_obj(j) ==
            IF j <= Len(s) /\ s[j] = "}" THEN Parsed([t |-> "members", v |-> <<>>], j + 1)
            ELSE obj(parse_members(s, j, <<>>))
    IN IF i > Len(s) THEN NoParse
       ELSE CASE s[i] = "n" -> parse_literal(s, i, <<"n", "u", "l", "l">>, JNull)
              [] s[i] = "t" -> parse_literal(s, i, <<"t", "r", "u", "e">>, JBool(TRUE))
              [] s[i] = "f" -> parse_literal(s, i, <<"f", "a", "l", "s", "e">>, JBool(FALSE))
              [] s[i] = "\"" -> str(parse_str(s, i))
              [] s[i] = "[" -> open_arr(skip_ws(s, i + 1))
              [] s[i] = "{" -> open_obj(skip_ws(s, i + 1))
              [] OTHER -> num(parse_int(s, i))

\* Deserialize for Value: the members of an object go into its map
RECURSIVE to_value(_)
to_value(p) ==
    CASE p.t = "members" ->
            JObj(map_from([i \in 1..Len(p.v) |-> <<p.v[i][1], to_value(p.v[i][2])>>], <<>>))
      [] p.t = "arr" -> JArr([i \in 1..Len(p.v) |-> to_value(p.v[i])])
      [] OTHER -> p

\* serde_json::from_str: one value, nothing but white space behind it
from_str(s) ==
    LET whole(p) ==
            IF p.ok /\ skip_ws(s, p.next) > Len(s) THEN Ok(p.val)
            ELSE Err("Unable to parse")
    IN whole(parse_value(s, skip_ws(s, 1)))

-----------------------------------------------------------------------------
(* BusEntry and its derived Serialize / Deserialize *)

BusEntryTypes ==
    {"Decomposition", "Delegation", "Result", "Critique", "Promotion", "Error"}

\* #[serde(rename_all = "snake_case")]
snake_case(entry_type) ==
    CASE entry_type = "Decomposition" -> <<"d", "e", "c", "o", "m", "p", "o", "s", "i", "t", "i", "o", "n">>
      [] entry_type = "Delegation" -> <<"d", "e", "l", "e", "g", "a", "t", "i", "o", "n">>
      [] entry_type = "Result" -> <<"r", "e", "s", "u", "l", "t">>
      [] entry_type = "Critique" -> <<"c", "r", "i", "t", "i", "q", "u", "e">>
      [] entry_type = "Promotion" -> <<"p", "r", "o", "m", "o", "t", "i", "o", "n">>
      [] entry_type = "Error" -> <<"e", "r", "r", "o", "r">>

KeyId == <<"i", "d">>
KeyTimestamp == <<"t", "i", "m", "e", "s", "t", "a", "m", "p">>
KeyType == <<"t", "y", "p", "e">>
KeyFrom == <<"f", "r", "o", "m">>
KeyTo == <<"t", "o">>
KeyStepId == <<"s", "t", "e", "p", "_", "i", "d">>
KeyContent == <<"c", "o", "n", "t", "e", "n", "t">>
KeyTokenUsage == <<"t", "o", "k", "e", "n", "_", "u", "s", "a", "g", "e">>
KeyInput == <<"i", "n", "p", "u", "t">>
KeyOutput == <<"o", "u", "t", "p", "u", "t">>

\* the members Serialize writes for a BusEntry, in the order of the fields;
\* step_id is skipped when it is None
bus_entry_members(entry) ==
    << <<KeyId, JStr(entry.id)>>,
       <<KeyTimestamp, JStr(entry.timestamp)>>,
       <<KeyType, JStr(snake_case(entry.entry_type))>>,
       <<KeyFrom, JStr(entry.from)>>,
       <<KeyTo, JStr(entry.to)>> >>
    \o (IF entry.step_id = None THEN <<>> ELSE << <<KeyStepId, JStr(entry.step_id[1])>> >>)
    \o << <<KeyContent, entry.content>>,
          <<KeyTokenUsage, JObj(<< <<KeyInput, JNum(entry.token_usage.input)>>,
                                   <<KeyOutput, JNum(entry.token_usage.output)>> >>)>> >>

\* serde_json::to_string(entry)
bus_entry_to_string(entry) == <<"{">> \o write_members(bus_entry_members(entry)) \o <<"}">>

Occurrences(members, k) == Cardinality({i \in 1..Len(members) : members[i][1] = k})
Member(members, k) == members[CHOOSE i \in 1..Len(members) : members[i][1] = k][2]

\* Deserialize for BusTokenUsage: both fields required, each an integer
bus_token_usage_from(p) ==
    IF p.t # "members" THEN Err("invalid type")
    ELSE IF \E k \in {KeyInput, KeyOutput} : Occurrences(p.v, k) # 1 THEN
        Err("missing or duplicate field")
    ELSE IF \E k \in {KeyInput, KeyOutput} : Member(p.v, k).t # "num" THEN Err("invalid type")
    ELSE Ok([input |-> Member(p.v, KeyInput).v, output |-> Member(p.v, KeyOutput).v])

\* Deserialize for BusEntry: every field but step_id is required, a field
\* may not occur twice, other keys are ignored
bus_entry_from(p) ==
    LET required == {KeyId, KeyTimestamp, KeyType, KeyFrom, KeyTo, KeyContent, KeyTokenUsage}
        strings == {KeyId, KeyTimestamp, KeyType, KeyFrom, KeyTo}
        entry_type(name) == {t \in BusEntryTypes : snake_case(t) = name}
        step_id(m) ==
            IF Occurrences(m, KeyStepId) = 0 \/ Member(m, KeyStepId).t = "null" THEN None
            ELSE Some(Member(m, KeyStepId).v)
        build(m, usage) ==
            IF ~usage.ok THEN usage
            ELSE Ok([id |-> Member(m, KeyId).v,
                     timestamp |-> Member(m, KeyTimestamp).v,
                     entry_type |-> CHOOSE t \in entry_type(Member(m, KeyType).v) : TRUE,
                     from |-> Member(m, KeyFrom).v,
                     to |-> Member(m, KeyTo).v,
                     step_id |-> step_id(m),
                     content |-> to_value(Member(m, KeyContent)),
                     token_usage |-> usage.val])
    IN IF p.t # "members" THEN Err("invalid type")
       ELSE IF \E k \in required : Occurrences(p.v, k) = 0 THEN Err("missing field")
       ELSE IF \E k \in required \cup {KeyStepId} : Occurrences(p.v, k) > 1 THEN
           Err("duplicate field")
       ELSE IF \E k \in strings : Member(p.v, k).t # "str" THEN Err("invalid type")
       ELSE IF Occurrences(p.v, KeyStepId) = 1
               /\ Member(p.v, KeyStepId).t \notin {"str", "null"} THEN Err("invalid type")
       ELSE IF entry_type(Member(p.v, KeyType).v) = {} THEN Err("unknown variant")
       ELSE build(p.v, bus_token_usage_from(Member(p.v, KeyTokenUsage)))

\* serde_json::from_str::<BusEntry>(line)
bus_entry_from_str(line) ==
    LET whole(p) ==
            IF p.ok /\ skip_ws(line, p.next) > Len(line) THEN bus_entry_from(p.val)
            ELSE Err("Unable to parse")
    IN whole(parse_value(line, skip_ws(line, 1)))

-----------------------------------------------------------------------------
(* The journal file team_bus.jsonl: None while it does not exist, else its *)
(* characters.                                                             *)

\* append_team_bus_entry without the line feed behind the entry
append_team_bus_entry_no_newline(file, entry) ==
    (IF file = None THEN <<>> ELSE file[1]) \o bus_entry_to_string(entry)

\* OpenOptions::new().create(true).append(true), write_all(serialized + "\n");
\* returns the characters of the file
append_team_bus_entry(file, entry) ==
    (IF file = None THEN <<>> ELSE file[1]) \o bus_entry_to_string(entry) \o <<"\n">>

\* BufReader::lines: the text between line feeds, a last line without one
\* included; a carriage return before the line feed is dropped
\* append_team_bus_entry emitting the event first and giving up when the
\* event is not delivered
append_team_bus_entry_emitting_first(file, entry, app) ==
    LET emitted == IF app = None THEN <<>>
                   ELSE <<[event |-> "team://bus_update", payload |-> entry,
                           delivered |-> app[1], file |-> file]>>
    IN IF app # None /\ ~app[1]
       THEN [file |-> file, emitted |-> emitted, res |-> Err(<<"emit failed">>)]
       ELSE [file |-> Some(append_team_bus_entry(file, entry)), emitted |-> emitted,
             res |-> Ok(<<>>)]

\* the whole function: the line is written, then `let _ = handle.emit(..)`
\* when there is a handle.  app is None, or tells whether the event is
\* delivered; an event emitted is kept with the file as it was then
append_team_bus_entry_emitting(file, entry, app) ==
    LET emit(written) ==
            IF app = None THEN <<>>
            ELSE <<[event |-> "team://bus_update", payload |-> entry,
                    delivered |-> app[1], file |-> written]>>
        wrote(written) == [file |-> written, emitted |-> emit(written), res |-> Ok(<<>>)]
    IN wrote(Some(append_team_bus_entry(file, entry)))

lines(s) ==
    LET feeds == {i \in 1..Len(s) : s[i] = "\n"}
        starts == {1} \cup {i + 1 : i \in feeds}
        \* the k-th start, counting from 1
        start(k) == CHOOSE i \in starts : Cardinality({j \in starts : j < i}) = k - 1
        stop(i) == IF \E j \in feeds : j >= i
                   THEN (CHOOSE j \in feeds : j >= i /\ \A l \in feeds : l >= i => j <= l) - 1
                   ELSE Len(s)
        chomp(line) == IF line # <<>> /\ Last(line) = "\r" THEN Front(line) ELSE line
        count == IF s = <<>> \/ Last(s) = "\n" THEN Cardinality(feeds)
                 ELSE Cardinality(feeds) + 1
    IN [k \in 1..count |-> chomp(SubSeq(s, start(k), stop(start(k))))]

RECURSIVE read_lines(_, _)
read_lines(ls, entries) ==
    IF ls = <<>> THEN Ok(entries)
    ELSE LET push(entry) ==
                 IF ~entry.ok THEN Err(<<"Unable to parse team bus entry: ", entry.err>>)
                 ELSE read_lines(Tail(ls), Append(entries, entry.val))
             line(trimmed) ==
                 IF trimmed = <<>> THEN read_lines(Tail(ls), entries)
                 ELSE push(bus_entry_from_str(trimmed))
         IN line(trim(Head(ls)))

read_team_bus_entries(file) ==
    IF file = None THEN Ok(<<>>) ELSE read_lines(lines(file[1]), <<>>)

-----------------------------------------------------------------------------
(* The journal on its own: entries appended to an empty journal, and read. *)

MaxEntries == 2

TextPlain == <<"a">>
TextQuoted == <<"\"", "a", "\\", "n", "\"">>
TextLines == <<" ", "a", "\n", "{", "}", "\r", "\n", "\t">>

make_entry(n, entry_type, from, to, step_id, content, input, output) ==
    [id |-> <<"u", DigitChars[n + 1]>>, timestamp |-> <<"T", DigitChars[n + 1]>>,
     entry_type |-> entry_type, from |-> from, to |-> to, step_id |-> step_id,
     content |-> content, token_usage |-> [input |-> input, output |-> output]]

\* entries of every type, with and without step_id, with text that needs
\* escaping and with usages of several digits
BusEntries ==
    { make_entry(1, "Decomposition", TextPlain, TextPlain, None, JNull, 0, 0),
      make_entry(2, "Delegation", TextPlain, TextQuoted, Some(TextPlain), JStr(TextLines), 7, 120),
      make_entry(3, "Result", TextLines, TextPlain, Some(TextLines), JStr(TextLines), 0 - 3, 45),
      make_entry(4, "Critique", TextQuoted, <<>>, None,
                 JObj(map_from(<< <<KeyFrom, JStr(TextPlain)>>, <<TextLines, JObj(<<>>)>>,
                                  <<KeyType, JBool(FALSE)>> >>, <<>>)), 1000, 0),
      make_entry(5, "Promotion", <<>>, TextPlain, Some(<<>>),
                 JArr(<<JStr(TextQuoted), JNum(0 - 12), JArr(<<>>), JBool(TRUE)>>), 9, 10),
      make_entry(6, "Error", TextPlain, TextLines, None, JStr(<<>>), 0, 0 - 100),
      make_entry(1, "Result", TextPlain, TextPlain, None, JObj(<<>>), 0, 0) }

\* the AppHandle the commands pass: one that delivers the event, one that
\* fails to
AppHandles == {Some(TRUE), Some(FALSE)}

BusInit ==
    /\ SandboxOff /\ LoopOff /\ PlanOff /\ TeamOff
    /\ bus_file \in {None, Some(<<>>)}
    /\ appended = <<>>
    /\ read_back = None
    /\ sink = <<>>

AppendEntry ==
    /\ Len(appended) < MaxEntries
    /\ \E entry \in BusEntries :
        \E app \in AppHandles :
            \E out \in {append_team_bus_entry_emitting(bus_file, entry, app)} :
                /\ bus_file' = out.file
                /\ appended' = IF out.res.ok THEN Append(appended, entry) ELSE appended
                /\ sink' = Append(sink, [entry |-> entry, app |-> app,
                                         emitted |-> out.emitted, res |-> out.res])
    /\ read_back' = None
    /\ UNCHANGED <<sbVars, loopVars, planVars, teamVars>>

ReadEntries ==
    /\ read_back = None
    /\ read_back' = Some(read_team_bus_entries(bus_file))
    /\ UNCHANGED <<bus_file, appended, sink, sbVars, loopVars, planVars, teamVars>>

BusNext == AppendEntry \/ ReadEntries

SpecBus == BusInit /\ [][BusNext]_vars

\* C7: appending N entries to an empty journal and reading it returns exactly
\* those N entries, in append order, each with the same id, timestamp, type,
\* from, to, step_id, content and token_usage.
C7_RoundTrip ==
    read_back # None => (read_back[1].ok /\ read_back[1].val = appended)

\* C7 witness: two entries were appended and read back, the first a Result
\* whose texts hold line feeds and whose usage is negative, the second a
\* Critique without step_id
C7_Witness ==
    /\ read_back # None /\ read_back[1].ok
    /\ Len(read_back[1].val) = 2
    /\ read_back[1].val[1].entry_type = "Result"
    /\ read_back[1].val[1].step_id = Some(TextLines)
    /\ read_back[1].val[1].token_usage.input < 0
    /\ read_back[1].val[2].entry_type = "Critique"
    /\ read_back[1].val[2].step_id = None


-----------------------------------------------------------------------------
(* Characters: byte order, ASCII case *)

AsciiUpper == SubSeq(AsciiLow, 34, 59)
AsciiLower == SubSeq(AsciiHigh, 1, 26)

to_ascii_lowercase_char(c) ==
    IF \E i \in 1..26 : AsciiUpper[i] = c
    THEN AsciiLower[CHOOSE i \in 1..26 : AsciiUpper[i] = c] ELSE c

ascii_lowercase(s) == [i \in 1..Len(s) |-> to_ascii_lowercase_char(s[i])]

eq_ignore_ascii_case(a, b) == ascii_lowercase(a) = ascii_lowercase(b)

is_ascii_alphanumeric(c) ==
    \/ \E i \in 1..26 : AsciiUpper[i] = c \/ AsciiLower[i] = c
    \/ IsDigit(c)

-----------------------------------------------------------------------------
(* The camp directory.  camp_json is camp.json, team_json is team.json     *)
(* (None while missing), bus is team_bus.jsonl (None while missing, else   *)
(* the entries its lines hold), scaffold tells whether the supervisor,     *)
(* agents and artifacts folders with the supervisor files exist,           *)
(* agent_dirs maps the id of each agent folder to its files, drafts and    *)
(* promoted map the file names in artifacts/drafts and artifacts/promoted  *)
(* to their text.  A world is the camp with the clock and the ids used.    *)

CampModel == <<"b", "a", "s", "e">>

FreshCamp ==
    [camp_json |-> [is_team |-> FALSE, updated_at |-> 0],
     team_json |-> None,
     bus |-> None,
     scaffold |-> FALSE,
     agent_dirs |-> <<>>,
     drafts |-> <<>>,
     promoted |-> <<>>]

TEAM_DEFAULT_MAX_REFLECTION_ROUNDS == 2
TEAM_MAX_AGENTS == 8

Min(a, b) == IF a < b THEN a ELSE b
Max(a, b) == IF a < b THEN b ELSE a

default_team_config ==
    [is_team |-> TRUE, supervisor_model |-> CampModel, agents |-> <<>>,
     reflection_loops |-> TRUE, max_reflection_rounds |-> TEAM_DEFAULT_MAX_REFLECTION_ROUNDS]

\* normalize_team_config leaving max_reflection_rounds as it is
normalize_team_config_rounds_kept(team_config) ==
    [is_team |-> TRUE,
     supervisor_model |-> IF trim(team_config.supervisor_model) = <<>> THEN CampModel
                          ELSE team_config.supervisor_model,
     agents |-> [i \in 1..Len(team_config.agents) |->
                    [team_config.agents[i] EXCEPT
                        !.model = IF trim(@) = <<>> THEN CampModel ELSE @,
                        !.tool_subset = normalize_tool_subset(@)]],
     reflection_loops |-> team_config.reflection_loops,
     max_reflection_rounds |-> team_config.max_reflection_rounds]

normalize_team_config(team_config) ==
    [is_team |-> TRUE,
     supervisor_model |-> IF trim(team_config.supervisor_model) = <<>> THEN CampModel
                          ELSE team_config.supervisor_model,
     agents |-> [i \in 1..Len(team_config.agents) |->
                    [team_config.agents[i] EXCEPT
                        !.model = IF trim(@) = <<>> THEN CampModel ELSE @,
                        !.tool_subset = normalize_tool_subset(@)]],
     reflection_loops |-> team_config.reflection_loops,
     max_reflection_rounds |->
         Min(IF team_config.max_reflection_rounds = 0
             THEN TEAM_DEFAULT_MAX_REFLECTION_ROUNDS
             ELSE team_config.max_reflection_rounds, 8)]

\* the arguments default_agent_prompt formats into the prompt text
default_agent_prompt(agent) ==
    [role |-> agent.role, id |-> agent.id,
     description |-> IF trim(agent.description) = <<>> THEN <<"S", "p", "e", "c", "i", "a", "l", "i", "z", "e", "d", " ", "c", "o", "n", "t", "r", "i", "b", "u", "t", "o", "r">>
                     ELSE trim(agent.description)]

\* ensure_agent_scaffold, had it written the tools file on every call
ensure_agent_scaffold_rewriting_tools(c, agent) ==
    IF agent.id \in DOMAIN c.agent_dirs
    THEN [c EXCEPT !.agent_dirs[agent.id].tools = normalize_tool_subset(agent.tool_subset)]
    ELSE [c EXCEPT !.agent_dirs =
             (agent.id :> [prompt |-> default_agent_prompt(agent),
                           tools |-> normalize_tool_subset(agent.tool_subset),
                           context |-> {}]) @@ @]

\* every file of the agent folder is written only while it is missing
ensure_agent_scaffold(c, agent) ==
    IF agent.id \in DOMAIN c.agent_dirs THEN c
    ELSE [c EXCEPT !.agent_dirs =
             (agent.id :> [prompt |-> default_agent_prompt(agent),
                           tools |-> normalize_tool_subset(agent.tool_subset),
                           context |-> {}]) @@ @]

RECURSIVE ensure_agent_scaffolds(_, _)
ensure_agent_scaffolds(c, agents) ==
    IF agents = <<>> THEN c
    ELSE ensure_agent_scaffolds(ensure_agent_scaffold(c, Head(agents)), Tail(agents))

\* ensure_team_scaffold writing the empty journal whether the file exists or not
ensure_team_scaffold_rewriting_bus(c, team_config) ==
    ensure_agent_scaffolds(
        [c EXCEPT !.scaffold = TRUE, !.bus = Some(<<>>)],
        team_config.agents)

ensure_team_scaffold(c, team_config) ==
    ensure_agent_scaffolds(
        [c EXCEPT !.scaffold = TRUE, !.bus = IF @ = None THEN Some(<<>>) ELSE @],
        team_config.agents)

\* ensure_team_mode writing camp.json whether the session is a team or not
ensure_team_mode_rewriting(c, timestamp) ==
    [c EXCEPT !.camp_json = [is_team |-> TRUE, updated_at |-> timestamp]]

ensure_team_mode(c, timestamp) ==
    IF c.camp_json.is_team THEN c
    ELSE [c EXCEPT !.camp_json = [is_team |-> TRUE, updated_at |-> timestamp]]

\* returns the configuration and the camp directory it leaves
load_team_config(w) ==
    LET loaded(c) ==
            IF c.team_json # None
            THEN [config |-> normalize_team_config(c.team_json[1]), camp |-> c]
            ELSE [config |-> default_team_config,
                  camp |-> [c EXCEPT !.team_json = Some(default_team_config)]]
        scaffolded(l) ==
            [config |-> l.config, camp |-> ensure_team_scaffold(l.camp, l.config)]
    IN scaffolded(loaded(ensure_team_mode(w.camp, w.now)))

\* returns the camp directory it leaves
save_team_config(c, team_config, timestamp) ==
    LET saved(normalized) ==
            [ensure_team_scaffold([c EXCEPT !.team_json = Some(normalized)], normalized)
                EXCEPT !.camp_json = [is_team |-> TRUE, updated_at |-> timestamp]]
    IN saved(normalize_team_config(team_config))

-----------------------------------------------------------------------------
(* The journal of the camp directory *)

make_bus_entry(uuid, timestamp, entry_type, from, to, step_id, content, token_usage) ==
    [id |-> uuid, timestamp |-> timestamp, entry_type |-> entry_type, from |-> from,
     to |-> to, step_id |-> step_id, content |-> content, token_usage |-> token_usage]

\* append_team_bus_entry on the lines of the file: created when missing
append_line(bus, entry) == Some((IF bus = None THEN <<>> ELSE bus[1]) \o <<entry>>)

\* make_bus_entry followed by append_team_bus_entry
journal(w, entry_type, from, to, step_id, content, token_usage) ==
    [w EXCEPT
        !.uuids = @ + 1,
        !.camp.bus = append_line(@, make_bus_entry(w.uuids + 1, w.now, entry_type, from, to,
                                                   step_id, content, token_usage))]

ZeroUsage == [input |-> 0, output |-> 0]

usage_to_bus(usage) ==
    [input |-> usage_or_zero(usage.prompt_tokens),
     output |-> usage_or_zero(usage.completion_tokens)]

S_supervisor == <<"s", "u", "p", "e", "r", "v", "i", "s", "o", "r">>
S_all == <<"a", "l", "l">>


-----------------------------------------------------------------------------
(* Roster and settings operations.  Every operation takes the world and    *)
(* returns the world it leaves with its result.                            *)

\* the world after load_team_config, with the error an operation returns
failed(w, l, e) == [w |-> [w EXCEPT !.camp = l.camp], res |-> Err(e)]

\* Vec::sort_by on the id as it is
RECURSIVE sort_agents_by_id(_, _)
sort_agents_by_id(agents, sorted) ==
    LET insert(a, k) == SubSeq(sorted, 1, k) \o <<a>> \o SubSeq(sorted, k + 1, Len(sorted))
        place(a) ==
            insert(a, Cardinality({i \in 1..Len(sorted) : ~StrLess(a.id, sorted[i].id)}))
    IN IF agents = <<>> THEN sorted
       ELSE sort_agents_by_id(Tail(agents), place(Head(agents)))

\* Vec::sort_by on the lowercased id: a stable insertion
RECURSIVE sort_agents(_, _)
sort_agents(agents, sorted) ==
    LET key(a) == ascii_lowercase(a.id)
        insert(a, k) == SubSeq(sorted, 1, k) \o <<a>> \o SubSeq(sorted, k + 1, Len(sorted))
        place(a) ==
            insert(a, Cardinality({i \in 1..Len(sorted) : ~StrLess(key(a), key(sorted[i]))}))
    IN IF agents = <<>> THEN sorted
       ELSE sort_agents(Tail(agents), place(Head(agents)))

find_agent_index(agents, agent_id) ==
    IF \E i \in 1..Len(agents) : agents[i].id = agent_id
    THEN CHOOSE i \in 1..Len(agents) :
            agents[i].id = agent_id /\ \A j \in 1..(i - 1) : agents[j].id # agent_id
    ELSE 0

find_agent(team_config, agent_id) ==
    LET found(i) == IF i = 0 THEN None ELSE Some(team_config.agents[i])
    IN found(find_agent_index(team_config.agents, agent_id))

find_agent_by_role(team_config, role_name) ==
    LET agents == team_config.agents
        matches(a) == eq_ignore_ascii_case(a.role, role_name) \/ eq_ignore_ascii_case(a.id, role_name)
    IN IF \E i \in 1..Len(agents) : matches(agents[i])
       THEN Some(agents[CHOOSE i \in 1..Len(agents) :
                            matches(agents[i]) /\ \A j \in 1..(i - 1) : ~matches(agents[j])])
       ELSE None

\* create_team_agent without the limit on the roster
create_team_agent_uncapped(w, agent_config) ==
    LET saved(l, normalized, agents) ==
            [w |-> [w EXCEPT !.camp =
                       ensure_agent_scaffold(
                           save_team_config(l.camp, [l.config EXCEPT !.agents = agents], w.now),
                           normalized)],
             res |-> Ok(normalized)]
        placed(l, normalized, i) ==
            saved(l, normalized,
                  sort_agents(IF i = 0 THEN Append(l.config.agents, normalized)
                              ELSE [l.config.agents EXCEPT ![i] = normalized], <<>>))
        checked(l, agent_id) ==
            IF ~agent_id.ok THEN failed(w, l, agent_id.err)
            ELSE IF trim(agent_config.role) = <<>>
            THEN failed(w, l, <<"agent_config.role is required.">>)
            ELSE IF trim(agent_config.model) = <<>>
            THEN failed(w, l, <<"agent_config.model is required.">>)
            ELSE placed(l,
                        [id |-> agent_id.val,
                         role |-> trim(agent_config.role),
                         model |-> trim(agent_config.model),
                         tool_subset |-> normalize_tool_subset(agent_config.tool_subset),
                         description |-> trim(agent_config.description)],
                        find_agent_index(l.config.agents, agent_id.val))
        loaded(l) == checked(l, validate_simple_identifier(agent_config.id, "agent_config.id"))
    IN loaded(load_team_config(w))

create_team_agent(w, agent_config) ==
    LET saved(l, normalized, agents) ==
            [w |-> [w EXCEPT !.camp =
                       ensure_agent_scaffold(
                           save_team_config(l.camp, [l.config EXCEPT !.agents = agents], w.now),
                           normalized)],
             res |-> Ok(normalized)]
        placed(l, normalized, i) ==
            saved(l, normalized,
                  sort_agents(IF i = 0 THEN Append(l.config.agents, normalized)
                              ELSE [l.config.agents EXCEPT ![i] = normalized], <<>>))
        checked(l, agent_id) ==
            IF ~agent_id.ok THEN failed(w, l, agent_id.err)
            ELSE IF /\ Len(l.config.agents) >= TEAM_MAX_AGENTS
                    /\ find_agent_index(l.config.agents, agent_id.val) = 0
            THEN failed(w, l, <<"A team can have at most 8 agents. Remove one before adding another.">>)
            ELSE IF trim(agent_config.role) = <<>>
            THEN failed(w, l, <<"agent_config.role is required.">>)
            ELSE IF trim(agent_config.model) = <<>>
            THEN failed(w, l, <<"agent_config.model is required.">>)
            ELSE placed(l,
                        [id |-> agent_id.val,
                         role |-> trim(agent_config.role),
                         model |-> trim(agent_config.model),
                         tool_subset |-> normalize_tool_subset(agent_config.tool_subset),
                         description |-> trim(agent_config.description)],
                        find_agent_index(l.config.agents, agent_id.val))
        loaded(l) == checked(l, validate_simple_identifier(agent_config.id, "agent_config.id"))
    IN loaded(load_team_config(w))

remove_team_agent(w, agent_id) ==
    LET keep(l, id) == SelectSeq(l.config.agents, LAMBDA a : a.id # id)
        removed(l, id, agents) ==
            IF Len(agents) = Len(l.config.agents)
            THEN failed(w, l, <<"Agent not found in team roster.">>)
            ELSE [w |-> [w EXCEPT !.camp =
                            save_team_config(
                                [l.camp EXCEPT !.agent_dirs =
                                    [d \in DOMAIN @ \ {id} |-> @[d]]],
                                [l.config EXCEPT !.agents = agents], w.now)],
                  res |-> Ok(<<>>)]
        checked(l, normalized_id) ==
            IF ~normalized_id.ok THEN failed(w, l, normalized_id.err)
            ELSE removed(l, normalized_id.val, keep(l, normalized_id.val))
        loaded(l) == checked(l, validate_simple_identifier(agent_id, "agent_id"))
    IN loaded(load_team_config(w))

\* remove_team_agent when save_team_config cannot write team.json: the error
\* comes back after fs::remove_dir_all has removed the folder
remove_team_agent_save_fails(w, agent_id) ==
    LET keep(l, id) == SelectSeq(l.config.agents, LAMBDA a : a.id # id)
        removed(l, id, agents) ==
            IF Len(agents) = Len(l.config.agents)
            THEN failed(w, l, <<"Agent not found in team roster.">>)
            ELSE [w |-> [w EXCEPT !.camp =
                            [l.camp EXCEPT !.agent_dirs =
                                [d \in DOMAIN @ \ {id} |-> @[d]]]],
                  res |-> Err(<<"Unable to write file team.json">>)]
        checked(l, normalized_id) ==
            IF ~normalized_id.ok THEN failed(w, l, normalized_id.err)
            ELSE removed(l, normalized_id.val, keep(l, normalized_id.val))
        loaded(l) == checked(l, validate_simple_identifier(agent_id, "agent_id"))
    IN loaded(load_team_config(w))

-----------------------------------------------------------------------------
(* get_team_status *)

\* Vec<String>::sort of the files of a folder
RECURSIVE sort_names(_)
sort_names(names) ==
    LET least(n) == <<n>> \o sort_names(names \ {n})
    IN IF names = {} THEN <<>>
       ELSE least(CHOOSE n \in names : \A m \in names : ~StrLess(m, n))

preview_from_content(content) ==
    LET spaced(text) == trim([i \in 1..Len(text) |-> IF text[i] = "\n" THEN " " ELSE text[i]])
        shown(normalized) ==
            IF normalized = <<>> THEN None
            ELSE Some(SubSeq(normalized, 1, Min(200, Len(normalized))))
    IN IF "output_text" \in DOMAIN content THEN shown(spaced(content.output_text)) ELSE None

\* the plan of the journal, had the search stopped at the oldest Decomposition
latest_plan_oldest(entries) ==
    IF \E i \in 1..Len(entries) : entries[i].entry_type = "Decomposition"
    THEN Some(entries[CHOOSE i \in 1..Len(entries) :
                 /\ entries[i].entry_type = "Decomposition"
                 /\ \A j \in 1..(i - 1) : entries[j].entry_type # "Decomposition"].content)
    ELSE None

latest_plan(entries) ==
    IF \E i \in 1..Len(entries) : entries[i].entry_type = "Decomposition"
    THEN Some(entries[CHOOSE i \in 1..Len(entries) :
                 /\ entries[i].entry_type = "Decomposition"
                 /\ \A j \in (i + 1)..Len(entries) : entries[j].entry_type # "Decomposition"].content)
    ELSE None

\* the walk of get_team_status keeping for a step the first status it meets
RECURSIVE walk_entries_first_status(_, _)
walk_entries_first_status(entries, maps) ==
    LET entry == Head(entries)
        usage(m) ==
            IF entry.from = S_supervisor THEN m
            ELSE (entry.from :>
                    [input |-> (IF entry.from \in DOMAIN m THEN m[entry.from].input ELSE 0)
                                  + entry.token_usage.input,
                     output |-> (IF entry.from \in DOMAIN m THEN m[entry.from].output ELSE 0)
                                  + entry.token_usage.output]) @@ m
        last_output(m) ==
            IF entry.from # S_supervisor /\ entry.entry_type = "Result"
                  /\ preview_from_content(entry.content) # None
            THEN (entry.from :> preview_from_content(entry.content)[1]) @@ m
            ELSE m
        status(m) ==
            IF entry.step_id = None THEN m
            ELSE IF entry.entry_type = "Delegation" THEN IF entry.step_id[1] \in DOMAIN m /\ m[entry.step_id[1]] # "pending" THEN m ELSE (entry.step_id[1] :> "running") @@ m
            ELSE IF entry.entry_type = "Result" THEN IF entry.step_id[1] \in DOMAIN m /\ m[entry.step_id[1]] # "pending" THEN m ELSE (entry.step_id[1] :> "complete") @@ m
            ELSE IF entry.entry_type = "Error" THEN IF entry.step_id[1] \in DOMAIN m /\ m[entry.step_id[1]] # "pending" THEN m ELSE (entry.step_id[1] :> "failed") @@ m
            ELSE m
    IN IF entries = <<>> THEN maps
       ELSE walk_entries_first_status(Tail(entries),
                         [agent_usage |-> usage(maps.agent_usage),
                          agent_last_output |-> last_output(maps.agent_last_output),
                          step_status_map |-> status(maps.step_status_map)])

\* the maps get_team_status builds while it walks the journal
RECURSIVE walk_entries(_, _)
walk_entries(entries, maps) ==
    LET entry == Head(entries)
        usage(m) ==
            IF entry.from = S_supervisor THEN m
            ELSE (entry.from :>
                    [input |-> (IF entry.from \in DOMAIN m THEN m[entry.from].input ELSE 0)
                                  + entry.token_usage.input,
                     output |-> (IF entry.from \in DOMAIN m THEN m[entry.from].output ELSE 0)
                                  + entry.token_usage.output]) @@ m
        last_output(m) ==
            IF entry.from # S_supervisor /\ entry.entry_type = "Result"
                  /\ preview_from_content(entry.content) # None
            THEN (entry.from :> preview_from_content(entry.content)[1]) @@ m
            ELSE m
        status(m) ==
            IF entry.step_id = None THEN m
            ELSE IF entry.entry_type = "Delegation" THEN (entry.step_id[1] :> "running") @@ m
            ELSE IF entry.entry_type = "Result" THEN (entry.step_id[1] :> "complete") @@ m
            ELSE IF entry.entry_type = "Error" THEN (entry.step_id[1] :> "failed") @@ m
            ELSE m
    IN IF entries = <<>> THEN maps
       ELSE walk_entries(Tail(entries),
                         [agent_usage |-> usage(maps.agent_usage),
                          agent_last_output |-> last_output(maps.agent_last_output),
                          step_status_map |-> status(maps.step_status_map)])

get_team_status(w) ==
    LET steps_of(plan, maps) ==
            IF plan = None THEN <<>>
            ELSE [i \in 1..Len(plan[1].steps) |->
                     [step_id |-> plan[1].steps[i].step_id,
                      assigned_to |-> plan[1].steps[i].assigned_to,
                      expected_output |-> plan[1].steps[i].expected_output,
                      status |-> maps.step_status_map[plan[1].steps[i].step_id]]]
        agent_status(agent, steps, entries) ==
            IF \E i \in 1..Len(steps) : steps[i].assigned_to = agent.id /\ steps[i].status = "running"
            THEN "working"
            ELSE IF \E i \in 1..Len(entries) :
                        entries[i].from = agent.id /\ entries[i].entry_type = "Critique"
            THEN "reflecting"
            ELSE "idle"
        agents_of(team_config, maps, steps, entries) ==
            [i \in 1..Len(team_config.agents) |->
                [id |-> team_config.agents[i].id,
                 role |-> team_config.agents[i].role,
                 model |-> team_config.agents[i].model,
                 tool_subset |-> team_config.agents[i].tool_subset,
                 status |-> agent_status(team_config.agents[i], steps, entries),
                 token_usage |-> IF team_config.agents[i].id \in DOMAIN maps.agent_usage
                                 THEN maps.agent_usage[team_config.agents[i].id] ELSE ZeroUsage,
                 last_output_preview |->
                     IF team_config.agents[i].id \in DOMAIN maps.agent_last_output
                     THEN Some(maps.agent_last_output[team_config.agents[i].id]) ELSE None]]
        status(l, entries, maps, steps) ==
            [w |-> [w EXCEPT !.camp = l.camp],
             res |-> Ok([is_team |-> TRUE,
                         supervisor_model |-> l.config.supervisor_model,
                         reflection_loops |-> l.config.reflection_loops,
                         max_reflection_rounds |-> l.config.max_reflection_rounds,
                         agents |-> agents_of(l.config, maps, steps, entries),
                         steps |-> steps,
                         bus_entries |-> Len(entries),
                         artifacts |-> [drafts |-> sort_names(DOMAIN l.camp.drafts),
                                        promoted |-> sort_names(DOMAIN l.camp.promoted)]])]
        walked(l, entries, plan, maps) == status(l, entries, maps, steps_of(plan, maps))
        planned(l, entries, plan) ==
            walked(l, entries, plan,
                   walk_entries(entries,
                                [agent_usage |-> <<>>, agent_last_output |-> <<>>,
                                 step_status_map |->
                                     IF plan = None THEN <<>>
                                     ELSE [id \in {plan[1].steps[i].step_id : i \in 1..Len(plan[1].steps)}
                                              |-> "pending"]]))
        read(l, entries) == planned(l, entries, latest_plan(entries))
        loaded(l) == read(l, l.camp.bus[1])
    IN IF ~w.camp.camp_json.is_team
       THEN [w |-> w,
             res |-> Ok([is_team |-> FALSE, supervisor_model |-> <<>>, reflection_loops |-> FALSE,
                         max_reflection_rounds |-> TEAM_DEFAULT_MAX_REFLECTION_ROUNDS,
                         agents |-> <<>>, steps |-> <<>>, bus_entries |-> 0,
                         artifacts |-> [drafts |-> <<>>, promoted |-> <<>>]])]
       ELSE loaded(load_team_config(w))

get_team_bus(w) ==
    LET loaded(l) == [w |-> [w EXCEPT !.camp = l.camp], res |-> Ok(l.camp.bus[1])]
    IN loaded(load_team_config(w))

update_team_settings(w, settings) ==
    LET saved(l) ==
            get_team_status(
                [w EXCEPT !.camp =
                    save_team_config(l.camp,
                        [l.config EXCEPT
                            !.supervisor_model = trim(settings.supervisor_model),
                            !.reflection_loops = settings.reflection_loops,
                            !.max_reflection_rounds =
                                Min(Max(settings.max_reflection_rounds, 1), 8)],
                        w.now)])
        loaded(l) ==
            IF trim(settings.supervisor_model) = <<>>
            THEN failed(w, l, <<"supervisor_model is required.">>)
            ELSE saved(l)
    IN loaded(load_team_config(w))


-----------------------------------------------------------------------------
(* Drafts and promoted artifacts *)

touch_camp_updated_at(c, timestamp) == [c EXCEPT !.camp_json.updated_at = timestamp]

\* Path::file_name: the last component when it is a Normal one
file_name(path) ==
    LET last(comps) ==
            IF comps # <<>> /\ Last(comps).kind = "Normal" THEN Some(Last(comps).name) ELSE None
    IN last(components(path))

\* str::replace("--", "-"): one pass from the left over non-overlapping matches
RECURSIVE replace_dashes(_)
replace_dashes(s) ==
    IF Len(s) < 2 THEN s
    ELSE IF s[1] = "-" /\ s[2] = "-" THEN <<"-">> \o replace_dashes(SubSeq(s, 3, Len(s)))
    ELSE <<s[1]>> \o replace_dashes(Tail(s))

RECURSIVE collapse_dashes(_)
collapse_dashes(s) ==
    IF contains(s, <<"-", "-">>) THEN collapse_dashes(replace_dashes(s)) ELSE s

RECURSIVE trim_matches(_, _)
trim_matches(s, c) ==
    IF s # <<>> /\ Head(s) = c THEN trim_matches(Tail(s), c)
    ELSE IF s # <<>> /\ Last(s) = c THEN trim_matches(Front(s), c)
    ELSE s

RECURSIVE trim_end_matches(_, _)
trim_end_matches(s, suffix) ==
    IF Len(s) >= Len(suffix) /\ SubSeq(s, Len(s) - Len(suffix) + 1, Len(s)) = suffix
    THEN trim_end_matches(SubSeq(s, 1, Len(s) - Len(suffix)), suffix)
    ELSE s

sanitize_filename(raw, fallback) ==
    LET kept(ch) == IF is_ascii_alphanumeric(ch) \/ ch \in {"-", "_", "."} THEN ch ELSE "-"
        named(normalized) ==
            IF normalized = <<>> THEN fallback
            ELSE IF ~contains(normalized, <<".">>) THEN normalized \o <<".", "m", "d">>
            ELSE normalized
        mapped(leaf) ==
            named(trim_matches(trim_matches(
                      collapse_dashes([i \in 1..Len(leaf) |-> kept(leaf[i])]), "."), "-"))
        leaf_of(name) == mapped(trim(IF name = None THEN fallback ELSE name[1]))
    IN leaf_of(file_name(trim(raw)))

S_artifacts == <<"a", "r", "t", "i", "f", "a", "c", "t", "s">>
S_drafts == <<"d", "r", "a", "f", "t", "s">>
S_promoted == <<"p", "r", "o", "m", "o", "t", "e", "d">>
DraftsRoot == <<S_artifacts, S_drafts>>
PromotedRoot == <<S_artifacts, S_promoted>>
DraftsPrefix == <<"a", "r", "t", "i", "f", "a", "c", "t", "s", "/", "d", "r", "a", "f", "t", "s", "/">>
PromotedPrefix == <<"a", "r", "t", "i", "f", "a", "c", "t", "s", "/", "p", "r", "o", "m", "o", "t", "e", "d", "/">>

\* the artifacts folder of the camp directory as a file system
CampFs(c) ==
    (<<>> :> Dir) @@ (<<S_artifacts>> :> Dir)
        @@ (IF c.scaffold THEN (DraftsRoot :> Dir) @@ (PromotedRoot :> Dir) ELSE <<>>)
        @@ [p \in {Append(DraftsRoot, n) : n \in DOMAIN c.drafts} |-> File(c.drafts[Last(p)])]
        @@ [p \in {Append(PromotedRoot, n) : n \in DOMAIN c.promoted} |-> File(c.promoted[Last(p)])]

\* returns the file name it wrote with the camp directory it leaves
write_step_draft(c, timestamp, step, agent_id, output_text) ==
    LET written(filename) ==
            [camp |-> [c EXCEPT !.scaffold = TRUE,
                                !.drafts = (filename :> output_text) @@ @],
             res |-> Ok(DraftsPrefix \o filename)]
        chosen(filename) ==
            IF filename \in DOMAIN c.drafts
            THEN written(trim_end_matches(sanitize_filename(step.step_id, <<"s", "t", "e", "p">>), <<".", "m", "d">>)
                            \o <<"-">> \o write_int(timestamp) \o <<".", "m", "d">>)
            ELSE written(filename)
    IN chosen(sanitize_filename(step.expected_output,
                                step.step_id \o <<"-">> \o agent_id \o <<".", "m", "d">>))

strip_prefix(s, prefix) ==
    IF IsPrefix(prefix, s) THEN Some(SubSeq(s, Len(prefix) + 1, Len(s))) ELSE None

parse_draft_path(c, artifact_path) ==
    LET resolved(canonical) ==
            IF ~canonical.ok THEN Err(<<"Unable to resolve draft artifact path: ", canonical.err>>)
            ELSE IF ~ensure_within_root(DraftsRoot, canonical.val).ok THEN Err(EscapesMsg)
            ELSE IF ~is_file(CampFs(c), canonical.val)
            THEN Err(<<"artifact_path must point to a draft file.">>)
            ELSE Ok(canonical.val)
        validated(relative_path) ==
            IF ~relative_path.ok THEN relative_path
            ELSE IF ~c.scaffold THEN Err(<<"Unable to resolve drafts folder: ", "ENOENT">>)
            ELSE resolved(canonicalize(CampFs(c), DraftsRoot, relative_path.val))
        relative(trimmed) ==
            IF strip_prefix(trimmed, DraftsPrefix) # None THEN strip_prefix(trimmed, DraftsPrefix)[1]
            ELSE IF strip_prefix(trimmed, <<"a", "r", "t", "i", "f", "a", "c", "t", "s", "\\", "d", "r", "a", "f", "t", "s", "\\">>) # None
            THEN strip_prefix(trimmed, <<"a", "r", "t", "i", "f", "a", "c", "t", "s", "\\", "d", "r", "a", "f", "t", "s", "\\">>)[1]
            ELSE trimmed
        checked(trimmed) ==
            IF trimmed = <<>> THEN Err(<<"artifact_path is required.">>)
            ELSE validated(validate_relative_path(relative(trimmed), "artifact_path", FALSE))
    IN checked(trim(artifact_path))

\* Path::file_stem and Path::extension split the name at its last dot,
\* unless nothing stands before that dot
last_dot(name) ==
    IF \E i \in 1..Len(name) : name[i] = "."
    THEN CHOOSE i \in 1..Len(name) : name[i] = "." /\ \A j \in (i + 1)..Len(name) : name[j] # "."
    ELSE 0

file_stem(name) == IF last_dot(name) <= 1 THEN name ELSE SubSeq(name, 1, last_dot(name) - 1)

extension(name) ==
    IF last_dot(name) <= 1 THEN None ELSE Some(SubSeq(name, last_dot(name) + 1, Len(name)))

unique_promoted_target(c, timestamp, source_filename) ==
    IF source_filename \notin DOMAIN c.promoted THEN source_filename
    ELSE file_stem(source_filename) \o <<"-">> \o write_int(timestamp) \o <<".">>
            \o (IF extension(source_filename) = None THEN <<"m", "d">> ELSE extension(source_filename)[1])

\* returns the two displayed paths with the camp directory it leaves
move_draft_to_promoted(c, timestamp, draft_full_path) ==
    LET renamed(source_filename, target) ==
            [camp |-> [c EXCEPT
                          !.drafts = [n \in DOMAIN @ \ {source_filename} |-> @[n]],
                          !.promoted = (target :> c.drafts[source_filename]) @@ @],
             res |-> Ok([from |-> DraftsPrefix \o source_filename,
                         to |-> PromotedPrefix \o target])]
        moved(source_filename) ==
            renamed(source_filename, unique_promoted_target(c, timestamp, source_filename))
        resolved(source) ==
            IF ~source.ok
            THEN [camp |-> c, res |-> Err(<<"Unable to resolve draft artifact path: ", source.err>>)]
            ELSE IF ~ensure_within_root(DraftsRoot, source.val).ok
            THEN [camp |-> c, res |-> Err(EscapesMsg)]
            ELSE moved(Last(source.val))
    IN resolved(Resolve(CampFs(c), <<>>, draft_full_path, LinkFuel))


-----------------------------------------------------------------------------
(* decompose_task, execute_agent_step, promote_artifact.  The reply of the *)
(* chat-completion service is an input: the call fails, or it returns a   *)
(* usage with a text that parse_json_from_output does or does not turn    *)
(* into the structure asked for.                                          *)

UnparseableMsg == <<"Unable to parse JSON payload from model output.">>

\* the Delegation entries appended from the last step to the first
RECURSIVE append_delegations_reversed(_, _)
append_delegations_reversed(w, steps) ==
    IF steps = <<>> THEN w
    ELSE append_delegations_reversed(
             journal(w, "Delegation", S_supervisor, Last(steps).assigned_to,
                     Some(Last(steps).step_id),
                     [instruction |-> Last(steps).instruction,
                      depends_on |-> Last(steps).depends_on,
                      expected_output |-> Last(steps).expected_output],
                     ZeroUsage),
             Front(steps))

\* the loop of decompose_task, had it delegated the first step only
append_delegations_first_only(w, steps) ==
    IF steps = <<>> THEN w ELSE append_delegations_reversed(w, <<Head(steps)>>)

RECURSIVE append_delegations(_, _)
append_delegations(w, steps) ==
    IF steps = <<>> THEN w
    ELSE append_delegations(
             journal(w, "Delegation", S_supervisor, Head(steps).assigned_to,
                     Some(Head(steps).step_id),
                     [instruction |-> Head(steps).instruction,
                      depends_on |-> Head(steps).depends_on,
                      expected_output |-> Head(steps).expected_output],
                     ZeroUsage),
             Tail(steps))

\* decompose_task journaling the plan as the model returned it, before validation
decompose_task_journal_first(w, user_task, reply) ==
    LET validated(l, journaled, plan) ==
            IF ~plan.ok THEN [w |-> journaled, res |-> Err(plan.err), called |-> TRUE]
            ELSE [w |-> append_delegations(journaled, plan.val.steps),
                  res |-> Ok(plan.val), called |-> TRUE]
        uncalled(f) == [w |-> f.w, res |-> f.res, called |-> FALSE]
        called(f) == [w |-> f.w, res |-> f.res, called |-> TRUE]
        loaded(l) ==
            IF l.config.agents = <<>>
            THEN uncalled(failed(w, l, <<"Team has no agents. Add at least one agent before decomposition.">>))
            ELSE IF trim(user_task) = <<>> THEN uncalled(failed(w, l, <<"user_task is required.">>))
            ELSE IF ~reply.ok THEN called(failed(w, l, reply.err))
            ELSE IF reply.parsed = None THEN called(failed(w, l, UnparseableMsg))
            ELSE validated(l,
                           journal([w EXCEPT !.camp = l.camp], "Decomposition", S_supervisor,
                                   S_all, None, reply.parsed[1], usage_to_bus(reply.usage)),
                           validate_decomposition_plan(l.config, reply.parsed[1]))
    IN loaded(load_team_config(w))

\* called tells whether run_chat_completion was called
decompose_task(w, user_task, reply) ==
    LET uncalled(f) == [w |-> f.w, res |-> f.res, called |-> FALSE]
        called(f) == [w |-> f.w, res |-> f.res, called |-> TRUE]
        validated(l, plan) ==
            IF ~plan.ok THEN called(failed(w, l, plan.err))
            ELSE [w |-> append_delegations(
                            journal([w EXCEPT !.camp = l.camp], "Decomposition", S_supervisor,
                                    S_all, None, plan.val, usage_to_bus(reply.usage)),
                            plan.val.steps),
                  res |-> Ok(plan.val),
                  called |-> TRUE]
        loaded(l) ==
            IF l.config.agents = <<>>
            THEN uncalled(failed(w, l, <<"Team has no agents. Add at least one agent before decomposition.">>))
            ELSE IF trim(user_task) = <<>> THEN uncalled(failed(w, l, <<"user_task is required.">>))
            ELSE IF ~reply.ok THEN called(failed(w, l, reply.err))
            ELSE IF reply.parsed = None THEN called(failed(w, l, UnparseableMsg))
            ELSE validated(l, validate_decomposition_plan(l.config, reply.parsed[1]))
    IN loaded(load_team_config(w))

\* decompose_task when the journal file can no longer be written after
\* `written` entries of the call were appended: append_team_bus_entry
\* returns the error and the call returns it
decompose_task_append_fails(w, user_task, reply, written) ==
    LET uncalled(f) == [w |-> f.w, res |-> f.res, called |-> FALSE]
        called(f) == [w |-> f.w, res |-> f.res, called |-> TRUE]
        journaled(l, plan) ==
            journal([w EXCEPT !.camp = l.camp], "Decomposition", S_supervisor,
                    S_all, None, plan, usage_to_bus(reply.usage))
        validated(l, plan) ==
            IF ~plan.ok THEN called(failed(w, l, plan.err))
            ELSE IF written > Len(plan.val.steps)
            THEN [w |-> append_delegations(journaled(l, plan.val), plan.val.steps),
                  res |-> Ok(plan.val), called |-> TRUE]
            ELSE IF written = 0
            THEN called(failed(w, l, <<"Unable to append team bus entry">>))
            ELSE [w |-> append_delegations(journaled(l, plan.val),
                                           SubSeq(plan.val.steps, 1, written - 1)),
                  res |-> Err(<<"Unable to append team bus entry">>),
                  called |-> TRUE]
        loaded(l) ==
            IF l.config.agents = <<>>
            THEN uncalled(failed(w, l, <<"Team has no agents. Add at least one agent before decomposition.">>))
            ELSE IF trim(user_task) = <<>> THEN uncalled(failed(w, l, <<"user_task is required.">>))
            ELSE IF ~reply.ok THEN called(failed(w, l, reply.err))
            ELSE IF reply.parsed = None THEN called(failed(w, l, UnparseableMsg))
            ELSE validated(l, validate_decomposition_plan(l.config, reply.parsed[1]))
    IN loaded(load_team_config(w))

\* the checks of the request without the comparison of the agent with
\* step.assigned_to
execute_agent_step_begin_any_agent(w, agent_id, step) ==
    LET identified(l, agent, step_id) ==
            IF ~step_id.ok THEN failed(w, l, step_id.err)
            ELSE [w |-> [w EXCEPT !.camp = l.camp],
                  res |-> Ok([agent |-> agent, step_id |-> step_id.val])]
        found(l, normalized_agent_id, agent) ==
            IF agent = None THEN failed(w, l, <<"Agent not found in team roster.">>)
            ELSE identified(l, agent[1], validate_simple_identifier(step.step_id, "step.step_id"))
        checked(l, normalized_agent_id) ==
            IF ~normalized_agent_id.ok THEN failed(w, l, normalized_agent_id.err)
            ELSE found(l, normalized_agent_id.val, find_agent(l.config, normalized_agent_id.val))
        loaded(l) == checked(l, validate_simple_identifier(agent_id, "agent_id"))
    IN loaded(load_team_config(w))

\* execute_agent_step_begin, had it refused a step whose dependencies have
\* no Result entry in the journal
execute_agent_step_begin_checking_depends_on(w, agent_id, step) ==
    LET entries == IF w.camp.bus = None THEN <<>> ELSE w.camp.bus[1]
        has_result(dependency) ==
            \E i \in 1..Len(entries) :
                entries[i].entry_type = "Result" /\ entries[i].step_id = Some(dependency)
        identified(l, agent, step_id) ==
            IF ~step_id.ok THEN failed(w, l, step_id.err)
            ELSE IF \E k \in 1..Len(step.depends_on) : ~has_result(step.depends_on[k])
            THEN failed(w, l, <<"Step dependencies are not complete.">>)
            ELSE [w |-> [w EXCEPT !.camp = l.camp],
                  res |-> Ok([agent |-> agent, step_id |-> step_id.val])]
        found(l, normalized_agent_id, agent) ==
            IF agent = None THEN failed(w, l, <<"Agent not found in team roster.">>)
            ELSE IF step.assigned_to # normalized_agent_id
            THEN failed(w, l, <<"Requested agent does not match step.assigned_to.">>)
            ELSE identified(l, agent[1], validate_simple_identifier(step.step_id, "step.step_id"))
        checked(l, normalized_agent_id) ==
            IF ~normalized_agent_id.ok THEN failed(w, l, normalized_agent_id.err)
            ELSE found(l, normalized_agent_id.val, find_agent(l.config, normalized_agent_id.val))
        loaded(l) == checked(l, validate_simple_identifier(agent_id, "agent_id"))
    IN loaded(load_team_config(w))

\* execute_agent_step up to the call of run_agent_inference_loop: the team
\* configuration is loaded and the request is checked
execute_agent_step_begin(w, agent_id, step) ==
    LET identified(l, agent, step_id) ==
            IF ~step_id.ok THEN failed(w, l, step_id.err)
            ELSE [w |-> [w EXCEPT !.camp = l.camp],
                  res |-> Ok([agent |-> agent, step_id |-> step_id.val])]
        found(l, normalized_agent_id, agent) ==
            IF agent = None THEN failed(w, l, <<"Agent not found in team roster.">>)
            ELSE IF step.assigned_to # normalized_agent_id
            THEN failed(w, l, <<"Requested agent does not match step.assigned_to.">>)
            ELSE identified(l, agent[1], validate_simple_identifier(step.step_id, "step.step_id"))
        checked(l, normalized_agent_id) ==
            IF ~normalized_agent_id.ok THEN failed(w, l, normalized_agent_id.err)
            ELSE found(l, normalized_agent_id.val, find_agent(l.config, normalized_agent_id.val))
        loaded(l) == checked(l, validate_simple_identifier(agent_id, "agent_id"))
    IN loaded(load_team_config(w))

\* the part after the loop journaling one Result per step and agent
execute_agent_step_finish_deduplicated(w, agent, step, step_id, run) ==
    LET entries == IF w.camp.bus = None THEN <<>> ELSE w.camp.bus[1]
        journaled_before ==
            \E i \in 1..Len(entries) :
                /\ entries[i].entry_type = "Result"
                /\ entries[i].from = agent.id
                /\ entries[i].step_id = Some(step_id)
        returned(draft_path) ==
            Ok([step_id |-> step_id, agent_id |-> agent.id,
                output_text |-> run.output_text, draft_path |-> draft_path,
                context_writes |-> run.context_writes,
                token_usage |-> run.token_usage])
        journaled(c, draft_path) ==
            IF journaled_before
            THEN [w |-> [w EXCEPT !.camp = touch_camp_updated_at(c, w.now)],
                  res |-> returned(draft_path)]
            ELSE [w |-> [journal([w EXCEPT !.camp = c], "Result", agent.id, S_supervisor,
                                 Some(step_id),
                                 [output_text |-> run.output_text, draft_path |-> draft_path,
                                  context_writes |-> run.context_writes],
                                 run.token_usage)
                            EXCEPT !.camp = touch_camp_updated_at(@, w.now)],
                  res |-> returned(draft_path)]
        drafted(d) == journaled(d.camp, d.res.val)
        ran(c) ==
            IF ~run.ok THEN [w |-> [w EXCEPT !.camp = c], res |-> Err(run.err)]
            ELSE drafted(write_step_draft(c, w.now, step, agent.id, run.output_text))
    IN ran([w.camp EXCEPT !.agent_dirs[agent.id].context =
               @ \cup {run.context_writes[i] : i \in 1..Len(run.context_writes)}])

\* execute_agent_step_finish, had it journaled the failure of the loop
execute_agent_step_finish_journaling_error(w, agent, step, step_id, run) ==
    LET journaled(c, draft_path) ==
            [w |-> [journal([w EXCEPT !.camp = c], "Result", agent.id, S_supervisor,
                            Some(step_id),
                            [output_text |-> run.output_text, draft_path |-> draft_path,
                             context_writes |-> run.context_writes],
                            run.token_usage)
                       EXCEPT !.camp = touch_camp_updated_at(@, w.now)],
             res |-> Ok([step_id |-> step_id, agent_id |-> agent.id,
                         output_text |-> run.output_text, draft_path |-> draft_path,
                         context_writes |-> run.context_writes,
                         token_usage |-> run.token_usage])]
        drafted(d) == journaled(d.camp, d.res.val)
        ran(c) ==
            IF ~run.ok
            THEN [w |-> journal([w EXCEPT !.camp = c], "Error", agent.id, S_supervisor,
                                Some(step_id),
                                [output_text |-> run.output_text, draft_path |-> None,
                                 context_writes |-> run.context_writes],
                                run.token_usage),
                  res |-> Err(run.err)]
            ELSE drafted(write_step_draft(c, w.now, step, agent.id, run.output_text))
    IN ran([w.camp EXCEPT !.agent_dirs[agent.id].context =
               @ \cup {run.context_writes[i] : i \in 1..Len(run.context_writes)}])

\* execute_agent_step from the return of run_agent_inference_loop.  run is
\* what the loop did: the files its write_file calls wrote into the context
\* folder, and its output or its error
execute_agent_step_finish(w, agent, step, step_id, run) ==
    LET journaled(c, draft_path) ==
            [w |-> [journal([w EXCEPT !.camp = c], "Result", agent.id, S_supervisor,
                            Some(step_id),
                            [output_text |-> run.output_text, draft_path |-> draft_path,
                             context_writes |-> run.context_writes],
                            run.token_usage)
                       EXCEPT !.camp = touch_camp_updated_at(@, w.now)],
             res |-> Ok([step_id |-> step_id, agent_id |-> agent.id,
                         output_text |-> run.output_text, draft_path |-> draft_path,
                         context_writes |-> run.context_writes,
                         token_usage |-> run.token_usage])]
        drafted(d) == journaled(d.camp, d.res.val)
        ran(c) ==
            IF ~run.ok THEN [w |-> [w EXCEPT !.camp = c], res |-> Err(run.err)]
            ELSE drafted(write_step_draft(c, w.now, step, agent.id, run.output_text))
    IN ran([w.camp EXCEPT !.agent_dirs[agent.id].context =
               @ \cup {run.context_writes[i] : i \in 1..Len(run.context_writes)}])

\* the whole call, when nothing else acts while the loop runs
execute_agent_step(w, agent_id, step, run) ==
    LET begun(b) ==
            IF ~b.res.ok THEN b
            ELSE execute_agent_step_finish(b.w, b.res.val.agent, step, b.res.val.step_id, run)
    IN begun(execute_agent_step_begin(w, agent_id, step))

promote_artifact(w, draft_path) ==
    LET moved(m) ==
            IF ~m.res.ok THEN [w |-> [w EXCEPT !.camp = m.camp], res |-> m.res]
            ELSE [w |-> [journal([w EXCEPT !.camp = m.camp], "Promotion", S_supervisor, S_all,
                                 None, [from |-> m.res.val.from, to |-> m.res.val.to], ZeroUsage)
                            EXCEPT !.camp = touch_camp_updated_at(@, w.now)],
                  res |-> Ok(m.res.val.to)]
        parsed(l, source) ==
            IF ~source.ok THEN failed(w, l, source.err)
            ELSE moved(move_draft_to_promoted(l.camp, w.now, source.val))
        loaded(l) == parsed(l, parse_draft_path(l.camp, draft_path))
    IN loaded(load_team_config(w))

-----------------------------------------------------------------------------
(* run_reflection_loop, cut at its chat-completion calls: the part up to   *)
(* the first critic call, the part from a critic reply to the writer call  *)
(* or to the return, the part from a writer reply to the next critic call. *)
(* r is the state of the run between two parts.                            *)

\* the clamp taking the requested count as it comes
requested_rounds_unclamped(rounds, max_reflection_rounds) ==
    IF rounds = 0 THEN Max(max_reflection_rounds, 1) ELSE rounds

requested_rounds(rounds, max_reflection_rounds) ==
    IF rounds = 0 THEN Max(max_reflection_rounds, 1)
    ELSE Min(rounds, Max(max_reflection_rounds, 1))

\* the round ending only on a passing critique or the last round
round_ends_ignoring_setting(critique, reflection_loops, round, requested) ==
    critique.pass \/ round >= requested

\* the two breaks of the round, after the critique is journaled
round_ends(critique, reflection_loops, round, requested) ==
    critique.pass \/ ~reflection_loops \/ round >= requested

run_reflection_loop_start(w, artifact_path, rounds) ==
    LET begun(l, writer, critic, draft_path) ==
            [w |-> [w EXCEPT !.camp = l.camp],
             res |-> Ok([writer |-> writer, critic |-> critic,
                         reflection_loops |-> l.config.reflection_loops,
                         requested_rounds |->
                             requested_rounds(rounds, l.config.max_reflection_rounds),
                         artifact_path |-> artifact_path,
                         draft_path |-> draft_path,
                         artifact_body |-> l.camp.drafts[Last(draft_path)],
                         critiques |-> <<>>, pass |-> FALSE,
                         round |-> 1, rounds_completed |-> 1])]
        parsed(l, writer, critic, draft_path) ==
            IF ~draft_path.ok THEN failed(w, l, draft_path.err)
            ELSE begun(l, writer, critic, draft_path.val)
        found(l, writer, critic) ==
            IF writer = None
            THEN failed(w, l, <<"Team is missing a Writer agent required for reflection loop.">>)
            ELSE IF critic = None
            THEN failed(w, l, <<"Team is missing a Critic agent required for reflection loop.">>)
            ELSE parsed(l, writer[1], critic[1], parse_draft_path(l.camp, artifact_path))
        loaded(l) ==
            found(l, find_agent_by_role(l.config, <<"w", "r", "i", "t", "e", "r">>), find_agent_by_role(l.config, <<"c", "r", "i", "t", "i", "c">>))
    IN loaded(load_team_config(w))

\* the part after the round loop moving the draft without journaling it
run_reflection_loop_finish_unjournaled(w, r) ==
    LET moved(m) ==
            IF ~m.res.ok THEN [w |-> [w EXCEPT !.camp = m.camp], res |-> m.res]
            ELSE [w |-> [w EXCEPT !.camp = touch_camp_updated_at(m.camp, w.now)],
                  res |-> Ok([artifact_path |-> m.res.val.from,
                              promoted_path |-> m.res.val.to,
                              rounds_completed |-> r.rounds_completed,
                              pass |-> r.pass,
                              critiques |-> r.critiques])]
    IN moved(move_draft_to_promoted(w.camp, w.now, r.draft_path))

\* the part after the round loop
run_reflection_loop_finish(w, r) ==
    LET moved(m) ==
            IF ~m.res.ok THEN [w |-> [w EXCEPT !.camp = m.camp], res |-> m.res]
            ELSE [w |-> [journal([w EXCEPT !.camp = m.camp], "Promotion", S_supervisor, S_all,
                                 None,
                                 [from |-> m.res.val.from, to |-> m.res.val.to,
                                  pass |-> r.pass, rounds_completed |-> r.rounds_completed],
                                 ZeroUsage)
                            EXCEPT !.camp = touch_camp_updated_at(@, w.now)],
                  res |-> Ok([artifact_path |-> m.res.val.from,
                              promoted_path |-> m.res.val.to,
                              rounds_completed |-> r.rounds_completed,
                              pass |-> r.pass,
                              critiques |-> r.critiques])]
    IN moved(move_draft_to_promoted(w.camp, w.now, r.draft_path))

\* res is None while the run goes on to the writer call
run_reflection_loop_critic(w, r, reply) ==
    LET ended(f, after) == [w |-> f.w, r |-> after, res |-> Some(f.res)]
        judged(journaled, critique, after) ==
            IF round_ends(critique, r.reflection_loops, r.round, r.requested_rounds)
            THEN ended(run_reflection_loop_finish(journaled, [after EXCEPT !.pass = critique.pass]),
                       [after EXCEPT !.pass = critique.pass])
            ELSE [w |-> journaled, r |-> after, res |-> None]
        parsed(critique) ==
            judged(journal(w, "Critique", r.critic.id, S_supervisor, None,
                           [round |-> r.round, issues |-> critique.issues,
                            suggestions |-> critique.suggestions, pass |-> critique.pass],
                           usage_to_bus(reply.usage)),
                   critique,
                   [r EXCEPT !.critiques = Append(@, critique)])
    IN IF ~reply.ok THEN [w |-> w, r |-> r, res |-> Some(Err(reply.err))]
       ELSE IF reply.parsed = None THEN [w |-> w, r |-> r, res |-> Some(Err(UnparseableMsg))]
       ELSE parsed(reply.parsed[1])

\* the writer's part leaving the draft file as it is
run_reflection_loop_writer_keeping_draft(w, r, reply) ==
    LET revised(writer_output) ==
            [w |-> journal(w, "Result", r.writer.id, r.critic.id, None,
                           [round |-> r.round, artifact_path |-> r.artifact_path,
                            output_text |-> writer_output],
                           usage_to_bus(reply.usage)),
             r |-> [r EXCEPT !.artifact_body = writer_output,
                             !.round = @ + 1, !.rounds_completed = r.round + 1],
             res |-> None]
    IN IF ~reply.ok THEN [w |-> w, r |-> r, res |-> Some(Err(reply.err))]
       ELSE revised(trim(reply.output_text))

\* the writer part of a round, had it written the reply to the draft as received
run_reflection_loop_writer_untrimmed(w, r, reply) ==
    LET revised(writer_output) ==
            [w |-> journal([w EXCEPT !.camp.drafts = (Last(r.draft_path) :> reply.output_text) @@ @],
                           "Result", r.writer.id, r.critic.id, None,
                           [round |-> r.round, artifact_path |-> r.artifact_path,
                            output_text |-> writer_output],
                           usage_to_bus(reply.usage)),
             r |-> [r EXCEPT !.artifact_body = writer_output,
                             !.round = @ + 1, !.rounds_completed = r.round + 1],
             res |-> None]
    IN IF ~reply.ok THEN [w |-> w, r |-> r, res |-> Some(Err(reply.err))]
       ELSE revised(trim(reply.output_text))

run_reflection_loop_writer(w, r, reply) ==
    LET revised(writer_output) ==
            [w |-> journal([w EXCEPT !.camp.drafts = (Last(r.draft_path) :> writer_output) @@ @],
                           "Result", r.writer.id, r.critic.id, None,
                           [round |-> r.round, artifact_path |-> r.artifact_path,
                            output_text |-> writer_output],
                           usage_to_bus(reply.usage)),
             r |-> [r EXCEPT !.artifact_body = writer_output,
                             !.round = @ + 1, !.rounds_completed = r.round + 1],
             res |-> None]
    IN IF ~reply.ok THEN [w |-> w, r |-> r, res |-> Some(Err(reply.err))]
       ELSE revised(trim(reply.output_text))


-----------------------------------------------------------------------------
(* The team operations as a state machine.  camp, now and uuids are the    *)
(* world; refl is the run of run_reflection_loop in flight with the calls  *)
(* it has made; last_op tells the operation that acted last; ops counts    *)
(* the operations started.                                                 *)

MaxOps == 2
MaxClock == 1

World == [camp |-> camp, now |-> now, uuids |-> uuids]

Journal == IF camp.bus = None THEN <<>> ELSE camp.bus[1]

ReflIdle ==
    [pc |-> "idle", r |-> <<>>, rounds |-> 0, configured_max |-> 0, start_len |-> 0,
     started_at |-> 0,
     critic_calls |-> 0, writer_calls |-> 0, call_failed |-> FALSE, result |-> <<>>]

NoOp == [op |-> "none", ok |-> TRUE, before |-> 0, err |-> ""]

\* the max_reflection_rounds team.json holds, the default while it is missing
ConfiguredMax ==
    IF camp.team_json = None THEN TEAM_DEFAULT_MAX_REFLECTION_ROUNDS
    ELSE camp.team_json[1].max_reflection_rounds

(* Inputs *)

WriterId == <<"w">>
CriticId == <<"c", "r", "i", "t", "i", "c">>
ModelOne == <<"m", "1">>

WriterInput ==
    [id |-> <<"w", " ">>, role |-> <<" ", "W", "r", "i", "t", "e", "r">>, model |-> ModelOne,
     tool_subset |-> <<"WRITE_FILE", "shell">>, description |-> <<>>]

CriticInput ==
    [id |-> CriticId, role |-> <<"R", "e", "v", "i", "e", "w", "e", "r">>, model |-> ModelOne,
     tool_subset |-> <<>>, description |-> <<"f", "i", "n", "d", "s", " ", "f", "a", "u", "l", "t", "s">>]

AgentInputs ==
    { WriterInput, CriticInput,
      [WriterInput EXCEPT !.id = <<"B">>, !.role = <<"c", "r", "i", "t", "i", "c">>],
      [WriterInput EXCEPT !.id = <<"a", "/", "b">>],
      [CriticInput EXCEPT !.role = <<" ">>] }

AgentIds == {WriterId, <<"z", "z">>, <<".", ".">>}

SettingsInputs ==
    { [supervisor_model |-> <<" ", "m", "2", " ">>, reflection_loops |-> TRUE, max_reflection_rounds |-> 0],
      [supervisor_model |-> ModelOne, reflection_loops |-> FALSE, max_reflection_rounds |-> 9],
      [supervisor_model |-> <<" ">>, reflection_loops |-> TRUE, max_reflection_rounds |-> 3] }

OutName == <<"o", "u", "t", ".", "m", "d">>

StepOne ==
    [step_id |-> <<"s", "1">>, assigned_to |-> WriterId, instruction |-> <<"w", "r", "i", "t", "e">>,
     depends_on |-> <<>>, expected_output |-> <<"n", "o", "t", "e", "s", "/", "o", "u", "t", ".", "m", "d">>]

\* a step for the critic that depends on the first step and on itself
StepTwo ==
    [step_id |-> <<" ", "s", "2">>, assigned_to |-> CriticId, instruction |-> <<"c", "h", "e", "c", "k">>,
     depends_on |-> <<<<"s", "1">>, <<"s", "2">>>>, expected_output |-> <<>>]

ProviderError == <<"Provider request failed.">>

PlanResponses ==
    { [ok |-> FALSE, err |-> ProviderError, parsed |-> None, usage |-> <<>>],
      [ok |-> TRUE, err |-> "", parsed |-> None,
       usage |-> [prompt_tokens |-> Some(5), completion_tokens |-> None]],
      [ok |-> TRUE, err |-> "",
       parsed |-> Some([task_summary |-> <<" ">>, steps |-> <<StepOne>>, reflection_required |-> TRUE]),
       usage |-> [prompt_tokens |-> Some(5), completion_tokens |-> Some(2)]],
      [ok |-> TRUE, err |-> "",
       parsed |-> Some([task_summary |-> <<"t">>,
                        steps |-> <<[StepOne EXCEPT !.assigned_to = <<"z", "z">>]>>,
                        reflection_required |-> FALSE]),
       usage |-> [prompt_tokens |-> None, completion_tokens |-> None]],
      [ok |-> TRUE, err |-> "",
       parsed |-> Some([task_summary |-> <<"t", "w", "o">>,
                        steps |-> <<[StepOne EXCEPT !.depends_on = <<<<"s", "2">>>>], StepTwo>>,
                        reflection_required |-> FALSE]),
       usage |-> [prompt_tokens |-> Some(7), completion_tokens |-> Some(3)]] }

UserTask == <<"d", "o", " ", "i", "t">>

\* a blank task, and a task with each reply
DecomposeInputs ==
    {<<<<" ">>, CHOOSE reply \in PlanResponses : ~reply.ok>>}
        \cup {<<UserTask, reply>> : reply \in PlanResponses}

RunOutputs ==
    { [ok |-> FALSE, err |-> ProviderError, output_text |-> <<>>,
       context_writes |-> <<<<"n", ".", "t", "x", "t">>>>, token_usage |-> ZeroUsage],
      [ok |-> TRUE, err |-> "", output_text |-> <<"v", "0">>,
       context_writes |-> <<>>, token_usage |-> [input |-> 4, output |-> 1]] }

RunFailed == CHOOSE run \in RunOutputs : ~run.ok
RunOk == CHOOSE run \in RunOutputs : run.ok

\* a file name that carries the time of a later promotion
StampedName == <<"o", "u", "t", "-">> \o write_int(MaxClock) \o <<".", "m", "d">>

StepStamped == [StepOne EXCEPT !.step_id = <<"s", "2">>, !.expected_output = StampedName]

RunOther == [RunOk EXCEPT !.output_text = <<"v", "2">>]

\* the agent, the step and what the inference loop did
ExecuteInputs ==
    { <<WriterId, StepOne, RunOk>>,
      <<WriterId, StepStamped, RunOther>>,
      <<WriterId, StepOne, RunFailed>>,
      <<WriterId, [StepOne EXCEPT !.expected_output = <<".", ".">>], RunOk>>,
      <<<<"z", "z">>, StepOne, RunOk>>,
      <<CriticId, StepOne, RunOk>>,
      <<<<" ", "w">>, [StepOne EXCEPT !.step_id = <<"a", "/", "b">>], RunOk>> }

PromotePaths == {DraftsPrefix \o OutName, StampedName, <<".", ".", "/", "o", "u", "t", ".", "m", "d">>, <<"s", "1", "-", "w", ".", "m", "d">>}

\* the artifact path and the rounds requested
ReflectInputs ==
    { <<DraftsPrefix \o OutName, 0>>, <<DraftsPrefix \o OutName, 10>>,
      <<<<" ", "o", "u", "t", ".", "m", "d">>, 1>>, <<<<" ", "o", "u", "t", ".", "m", "d">>, 2>>,
      <<<<".", ".", "/", "o", "u", "t", ".", "m", "d">>, 0>>, <<<<"s", "1", "-", "w", ".", "m", "d">>, 2>> }

CriticResponses ==
    { [ok |-> FALSE, err |-> ProviderError, parsed |-> None, usage |-> <<>>],
      [ok |-> TRUE, err |-> "", parsed |-> None,
       usage |-> [prompt_tokens |-> Some(3), completion_tokens |-> None]],
      [ok |-> TRUE, err |-> "",
       parsed |-> Some([issues |-> <<>>, suggestions |-> <<>>, pass |-> TRUE]),
       usage |-> [prompt_tokens |-> Some(3), completion_tokens |-> Some(1)]],
      [ok |-> TRUE, err |-> "",
       parsed |-> Some([issues |-> <<<<"d", "u", "l", "l">>>>, suggestions |-> <<>>, pass |-> FALSE]),
       usage |-> [prompt_tokens |-> Some(3), completion_tokens |-> Some(1)]] }

WriterResponses ==
    { [ok |-> FALSE, err |-> ProviderError, output_text |-> <<>>, usage |-> <<>>],
      [ok |-> TRUE, err |-> "", output_text |-> <<" ", "v", "1", "\n">>,
       usage |-> [prompt_tokens |-> Some(2), completion_tokens |-> Some(2)]] }

(* Camp directories the operations above produce from the fresh one *)

Settings(loops, max) ==
    [supervisor_model |-> ModelOne, reflection_loops |-> loops, max_reflection_rounds |-> max]

Staffed ==
    create_team_agent(
        create_team_agent([camp |-> FreshCamp, now |-> 0, uuids |-> 0], WriterInput).w,
        CriticInput).w

\* a team with its settings and one draft
Drafted(loops, max) ==
    execute_agent_step(update_team_settings(Staffed, Settings(loops, max)).w,
                       WriterId, StepOne, RunOk).w

\* the same after the draft was promoted and the step was run again
Redrafted(loops, max) ==
    execute_agent_step(promote_artifact(Drafted(loops, max), DraftsPrefix \o OutName).w,
                       WriterId, StepOne, RunOk).w

\* the same with a second draft, named after the time of a later promotion
Stamped == execute_agent_step(Redrafted(TRUE, 2), WriterId, StepStamped, RunOther).w

SeedSettings == {<<TRUE, 1>>, <<TRUE, 2>>, <<TRUE, 3>>, <<FALSE, 2>>}

ReflectSeeds ==
    {Drafted(s[1], s[2]) : s \in SeedSettings} \cup {Redrafted(s[1], s[2]) : s \in SeedSettings}

\* the fresh camp, and teams as later operations find them
TeamSeeds ==
    {[camp |-> FreshCamp, now |-> 0, uuids |-> 0], Staffed, Drafted(TRUE, 2),
     [Redrafted(FALSE, 3) EXCEPT !.now = MaxClock]}


(* Actions *)

Tick ==
    /\ now < MaxClock
    /\ now' = now + 1
    /\ UNCHANGED <<camp, uuids, refl, last_op, ops, sbVars, loopVars, planVars, busVars>>

\* an operation without a chat-completion call in flight afterwards
Done(op, out) ==
    /\ camp' = out.w.camp
    /\ uuids' = out.w.uuids
    /\ last_op' = [op |-> op, ok |-> out.res.ok, before |-> Len(Journal), err |-> out.res.err]
    /\ ops' = ops + 1
    /\ UNCHANGED <<now, refl, sbVars, loopVars, planVars, busVars>>

\* the same keeping the input of the operation
DoneWith(op, out, input) ==
    /\ camp' = out.w.camp
    /\ uuids' = out.w.uuids
    /\ last_op' = [op |-> op, ok |-> out.res.ok, before |-> Len(Journal), err |-> out.res.err,
                   input |-> input]
    /\ ops' = ops + 1
    /\ UNCHANGED <<now, refl, sbVars, loopVars, planVars, busVars>>

CreateTeamAgent ==
    /\ ops < MaxOps
    /\ \E agent_config \in AgentInputs :
          \E out \in {create_team_agent(World, agent_config)} :
              DoneWith("create_team_agent", out, agent_config)

RemoveTeamAgent ==
    /\ ops < MaxOps
    /\ \E agent_id \in AgentIds :
          \E out \in {remove_team_agent(World, agent_id)} :
              DoneWith("remove_team_agent", out, agent_id)

UpdateTeamSettings ==
    /\ ops < MaxOps
    /\ \E settings \in SettingsInputs :
          \E out \in {update_team_settings(World, settings)} :
              DoneWith("update_team_settings", out, settings)

GetTeamStatus ==
    /\ ops < MaxOps
    /\ \E out \in {get_team_status(World)} :
          /\ camp' = out.w.camp
          /\ uuids' = out.w.uuids
          /\ last_op' = [op |-> "get_team_status", ok |-> out.res.ok, before |-> Len(Journal),
                         err |-> out.res.err, status |-> out.res.val]
    /\ ops' = ops + 1
    /\ UNCHANGED <<now, refl, sbVars, loopVars, planVars, busVars>>

GetTeamBus ==
    /\ ops < MaxOps
    /\ \E out \in {get_team_bus(World)} : Done("get_team_bus", out)

DecomposeTask ==
    /\ ops < MaxOps
    /\ \E input \in DecomposeInputs :
          \E out \in {decompose_task(World, input[1], input[2])} :
              /\ camp' = out.w.camp
              /\ uuids' = out.w.uuids
              /\ last_op' = [op |-> "decompose_task", ok |-> out.res.ok,
                             before |-> Len(Journal), err |-> out.res.err,
                             called |-> out.called, plan |-> out.res.val,
                             usage |-> input[2].usage, parsed |-> input[2].parsed]
    /\ ops' = ops + 1
    /\ UNCHANGED <<now, refl, sbVars, loopVars, planVars, busVars>>

ExecuteAgentStep ==
    /\ ops < MaxOps
    /\ \E input \in ExecuteInputs :
          \E out \in {execute_agent_step(World, input[1], input[2], input[3])} :
              /\ camp' = out.w.camp
              /\ uuids' = out.w.uuids
              /\ last_op' = [op |-> "execute_agent_step", ok |-> out.res.ok,
                             before |-> Len(Journal), err |-> out.res.err,
                             agent_id |-> input[1], step |-> input[2], run |-> input[3],
                             called |-> execute_agent_step_begin(World, input[1], input[2]).res.ok]
    /\ ops' = ops + 1
    /\ UNCHANGED <<now, refl, sbVars, loopVars, planVars, busVars>>

PromoteArtifact ==
    /\ ops < MaxOps
    /\ \E draft_path \in PromotePaths :
          \E out \in {promote_artifact(World, draft_path)} : Done("promote_artifact", out)

\* run_reflection_loop up to its first critic call
ReflectionStart ==
    /\ ops < MaxOps
    /\ refl.pc \in {"idle", "returned"}
    /\ \E input \in ReflectInputs :
          \E out \in {run_reflection_loop_start(World, input[1], input[2])} :
              /\ camp' = out.w.camp
              /\ uuids' = out.w.uuids
              /\ refl' = [pc |-> IF out.res.ok THEN "critic" ELSE "returned",
                          r |-> out.res.val,
                          rounds |-> input[2],
                          configured_max |-> ConfiguredMax,
                          start_len |-> Len(Journal),
                          started_at |-> ops + 1,
                          critic_calls |-> IF out.res.ok THEN 1 ELSE 0,
                          writer_calls |-> 0,
                          call_failed |-> FALSE,
                          result |-> IF out.res.ok THEN <<>> ELSE out.res]
              /\ last_op' = [op |-> "run_reflection_loop", ok |-> out.res.ok,
                             before |-> Len(Journal)]
    /\ ops' = ops + 1
    /\ UNCHANGED <<now, sbVars, loopVars, planVars, busVars>>

\* the critic call returns: the run goes on to the writer call or returns
CriticReplies ==
    /\ refl.pc = "critic"
    /\ \E reply \in CriticResponses :
          \E out \in {run_reflection_loop_critic(World, refl.r, reply)} :
              /\ camp' = out.w.camp
              /\ uuids' = out.w.uuids
              /\ refl' = [refl EXCEPT
                            !.pc = IF out.res = None THEN "writer" ELSE "returned",
                            !.r = out.r,
                            !.writer_calls = IF out.res = None THEN @ + 1 ELSE @,
                            !.call_failed = ~reply.ok \/ reply.parsed = None,
                            !.result = IF out.res = None THEN <<>> ELSE out.res[1]]
              /\ last_op' = [op |-> "critic_reply",
                             ok |-> IF out.res = None THEN TRUE ELSE out.res[1].ok,
                             before |-> Len(Journal)]
    /\ UNCHANGED <<now, ops, sbVars, loopVars, planVars, busVars>>

\* the writer call returns: the run goes on to the next critic call or returns
WriterReplies ==
    /\ refl.pc = "writer"
    /\ \E reply \in WriterResponses :
          \E out \in {run_reflection_loop_writer(World, refl.r, reply)} :
              /\ camp' = out.w.camp
              /\ uuids' = out.w.uuids
              /\ refl' = [refl EXCEPT
                            !.pc = IF out.res = None THEN "critic" ELSE "returned",
                            !.r = out.r,
                            !.critic_calls = IF out.res = None THEN @ + 1 ELSE @,
                            !.call_failed = ~reply.ok,
                            !.result = IF out.res = None THEN <<>> ELSE out.res[1]]
              /\ last_op' = [op |-> "writer_reply",
                             ok |-> IF out.res = None THEN TRUE ELSE out.res[1].ok,
                             before |-> Len(Journal)]
    /\ UNCHANGED <<now, ops, sbVars, loopVars, planVars, busVars>>

(* One run of run_reflection_loop on a team with a draft *)

ReflectInit ==
    /\ SandboxOff /\ LoopOff /\ PlanOff /\ BusOff
    /\ \E seed \in ReflectSeeds :
          /\ camp = seed.camp
          /\ uuids = seed.uuids
          /\ now = seed.now
    /\ refl = ReflIdle
    /\ last_op = NoOp
    /\ ops = MaxOps - 1

ReflectNext == ReflectionStart \/ CriticReplies \/ WriterReplies \/ Tick

SpecReflect == ReflectInit /\ [][ReflectNext]_vars

(* The roster operations, on rosters up to the limit and on a team.json   *)
(* edited by hand                                                          *)

\* save_team_config fails inside remove_team_agent
RemoveTeamAgentSaveFails ==
    /\ ops < MaxOps
    /\ \E agent_id \in AgentIds :
          \E out \in {remove_team_agent_save_fails(World, agent_id)} :
              DoneWith("remove_team_agent", out, agent_id)

RECURSIVE Hired(_, _)
Hired(w, ids) ==
    IF ids = <<>> THEN w
    ELSE Hired(create_team_agent(w, [CriticInput EXCEPT !.id = Head(ids)]).w, Tail(ids))

\* six more agents, and the writer hired again as a reviewer: a roster of eight
FullRoster == Hired(Staffed, <<<<"f">>, <<"C">>, <<"a">>, <<"e">>, <<"b">>, <<"d">>, WriterId>>)

\* team.json as an editor can leave it
Edited(w, model, rounds) ==
    [w EXCEPT !.camp.team_json =
        Some([@[1] EXCEPT !.supervisor_model = model, !.max_reflection_rounds = rounds])]

RosterSeeds ==
    {[camp |-> FreshCamp, now |-> 0, uuids |-> 0], Staffed, FullRoster,
     remove_team_agent(FullRoster, <<"e">>).w,
     Edited(Staffed, <<" ">>, 0), Edited(FullRoster, ModelOne, 200)}

RosterInit ==
    /\ SandboxOff /\ LoopOff /\ PlanOff /\ BusOff
    /\ \E seed \in RosterSeeds :
          /\ camp = seed.camp
          /\ uuids = seed.uuids
          /\ now = seed.now
    /\ refl = ReflIdle
    /\ last_op = NoOp
    /\ ops = 0

RosterNext ==
    \/ CreateTeamAgent \/ RemoveTeamAgent \/ UpdateTeamSettings
    \/ RemoveTeamAgentSaveFails \/ GetTeamStatus

SpecRoster == RosterInit /\ [][RosterNext]_vars

(* Journals for get_team_status: plans, runs, a reflection run, and what  *)
(* a journal file may hold besides                                         *)

SupervisorNamed == [CriticInput EXCEPT !.id = S_supervisor]

TwoStepPlan ==
    CHOOSE reply \in PlanResponses : reply.parsed # None /\ Len(reply.parsed[1].steps) = 2

OneStepPlan ==
    CHOOSE reply \in PlanResponses :
        reply.parsed # None /\ reply.parsed[1].steps = <<StepOne>>

FailingCritique == CHOOSE reply \in CriticResponses : reply.parsed # None /\ ~reply.parsed[1].pass
PassingCritique == CHOOSE reply \in CriticResponses : reply.parsed # None /\ reply.parsed[1].pass
Revision == CHOOSE reply \in WriterResponses : reply.ok

\* a plan for the writer and the critic
Planned == decompose_task(Staffed, UserTask, TwoStepPlan).w

\* its first step was run
RanOne == execute_agent_step(Planned, WriterId, StepOne, RunOk).w

\* run_reflection_loop from its first critic call to its return: a failing
\* critique, a revision, a passing critique
Critiqued(w, started) ==
    run_reflection_loop_critic(started.w, started.res.val, FailingCritique)

Revised(critiqued) == run_reflection_loop_writer(critiqued.w, critiqued.r, Revision)

Reflected(w) ==
    LET again(revised) == run_reflection_loop_critic(revised.w, revised.r, PassingCritique).w
    IN again(Revised(Critiqued(w, run_reflection_loop_start(w, DraftsPrefix \o OutName, 0))))

\* the critic ran its own step after the reflection run
RanTwo == execute_agent_step(Reflected(RanOne), CriticId, StepTwo, RunOk).w

\* a second plan after the first step of the first plan was run
Replanned == decompose_task(RanOne, UserTask, OneStepPlan).w

\* decompose_task stopped between its appends: the plan without its delegations
Interrupted ==
    journal(Staffed, "Decomposition", S_supervisor, S_all, None,
            validate_decomposition_plan(load_team_config(Staffed).config, TwoStepPlan.parsed[1]).val,
            ZeroUsage)

\* an Error entry, which the journal format defines and no operation writes
Errored ==
    journal(RanOne, "Error", WriterId, S_supervisor, Some(<<"s", "1">>), [message |-> <<"f", "a", "i", "l", "e", "d">>],
            [input |-> 1, output |-> 0])

\* an agent called supervisor ran a step
SupervisorRan ==
    execute_agent_step(create_team_agent(Planned, SupervisorNamed).w, S_supervisor,
                       [StepOne EXCEPT !.step_id = <<"s", "3">>, !.assigned_to = S_supervisor],
                       RunOk).w

StatusSeeds ==
    {[camp |-> FreshCamp, now |-> 0, uuids |-> 0], Staffed, Planned, RanOne, Reflected(RanOne),
     RanTwo, Replanned, Interrupted, Errored, SupervisorRan}

StatusInit ==
    /\ SandboxOff /\ LoopOff /\ PlanOff /\ BusOff
    /\ \E seed \in StatusSeeds :
          /\ camp = seed.camp
          /\ uuids = seed.uuids
          /\ now = seed.now
    /\ refl = ReflIdle
    /\ last_op = NoOp
    /\ ops = 0

\* decompose_task while the journal file stops being writable
DecomposeTaskAppendFails ==
    /\ ops < MaxOps
    /\ \E input \in DecomposeInputs, written \in 0..MaxSteps :
          \E out \in {decompose_task_append_fails(World, input[1], input[2], written)} :
              /\ ~out.res.ok
              /\ camp' = out.w.camp
              /\ uuids' = out.w.uuids
              /\ last_op' = [op |-> "decompose_task", ok |-> out.res.ok,
                             before |-> Len(Journal), err |-> out.res.err,
                             called |-> out.called, plan |-> out.res.val,
                             usage |-> input[2].usage, parsed |-> input[2].parsed]
    /\ ops' = ops + 1
    /\ UNCHANGED <<now, refl, sbVars, loopVars, planVars, busVars>>

\* steps as the plan of two steps gives them, each naming its dependencies
DependentInputs ==
    { <<WriterId, [StepOne EXCEPT !.depends_on = <<<<"s", "2">>>>], RunOk>>,
      <<CriticId, StepTwo, RunOk>> }

\* execute_agent_step with a step that names dependencies
ExecuteDependentStep ==
    /\ ops < MaxOps
    /\ \E input \in DependentInputs :
          \E out \in {execute_agent_step(World, input[1], input[2], input[3])} :
              /\ camp' = out.w.camp
              /\ uuids' = out.w.uuids
              /\ last_op' = [op |-> "execute_agent_step", ok |-> out.res.ok,
                             before |-> Len(Journal), err |-> out.res.err,
                             agent_id |-> input[1], step |-> input[2], run |-> input[3],
                             called |-> execute_agent_step_begin(World, input[1], input[2]).res.ok]
    /\ ops' = ops + 1
    /\ UNCHANGED <<now, refl, sbVars, loopVars, planVars, busVars>>

StatusNext ==
    \/ GetTeamStatus \/ DecomposeTask \/ DecomposeTaskAppendFails
    \/ ExecuteAgentStep \/ ExecuteDependentStep

SpecStatus == StatusInit /\ [][StatusNext]_vars

(* Every public operation, in any order *)

TeamInit ==
    /\ SandboxOff /\ LoopOff /\ PlanOff /\ BusOff
    /\ \E seed \in TeamSeeds :
          /\ camp = seed.camp
          /\ uuids = seed.uuids
          /\ now = seed.now
    /\ refl = ReflIdle
    /\ last_op = NoOp
    /\ ops = 0

TeamNext ==
    \/ CreateTeamAgent \/ RemoveTeamAgent \/ UpdateTeamSettings
    \/ GetTeamStatus \/ GetTeamBus
    \/ DecomposeTask \/ ExecuteAgentStep \/ PromoteArtifact
    \/ ReflectionStart \/ CriticReplies \/ WriterReplies

SpecTeam == TeamInit /\ [][TeamNext]_vars


-----------------------------------------------------------------------------
(* Properties of the journal and of the reflection loop *)

\* C6: the journal is append-only: whatever operation acts, and whether it
\* succeeds or fails, the journal before the step is a prefix of the journal
\* after it
C6_JournalAppendOnly == [][IsPrefix(Journal, Journal')]_vars

\* a failed operation has acted on a journal that held entries
C6_Witness ==
    /\ last_op.op \notin {"none", "critic_reply", "writer_reply"}
    /\ ~last_op.ok
    /\ last_op.before > 0
    /\ ops = MaxOps

\* the number of rounds the run may take: the configured maximum when 0 was
\* requested, else the smaller of the requested count and that maximum
AllowedRounds ==
    IF refl.rounds = 0 THEN refl.configured_max ELSE Min(refl.rounds, refl.configured_max)

Returned == refl.pc = "returned" /\ refl.result.ok

Running == refl.pc \in {"critic", "writer"}

AllCritiquesFail == \A i \in 1..Len(refl.r.critiques) : ~refl.r.critiques[i].pass

\* C8: a run makes at most N critic calls, N being the clamped round count;
\* with reflection loops enabled and every critique failing, the run returns
\* after exactly N rounds with rounds_completed = N and pass = FALSE
C8_RoundsClamped ==
    /\ (Running \/ Returned) =>
          /\ refl.critic_calls <= AllowedRounds
          /\ refl.r.round <= AllowedRounds
    /\ (Returned /\ refl.r.reflection_loops /\ AllCritiquesFail) =>
          /\ refl.critic_calls = AllowedRounds
          /\ refl.result.val.rounds_completed = AllowedRounds
          /\ ~refl.result.val.pass

\* configured maximum 3, 10 rounds requested, the critic never passes: 3 rounds
C8_Witness ==
    /\ Returned
    /\ refl.configured_max = 3 /\ refl.rounds = 10
    /\ refl.r.reflection_loops /\ AllCritiquesFail
    /\ refl.result.val.rounds_completed = 3

\* C9: the run stops at the first passing critique, with pass = TRUE and
\* rounds_completed that round, and makes no call after it; on a failing
\* critique with reflection loops disabled or in the last allowed round it
\* stops with pass = FALSE and no writer call in that round
C9_StopsAtFirstPass ==
    /\ refl.pc = "critic" => AllCritiquesFail
    /\ refl.pc = "writer" =>
          /\ AllCritiquesFail
          /\ refl.r.reflection_loops
          /\ refl.r.round < refl.r.requested_rounds
          /\ refl.writer_calls = refl.r.round
    /\ Returned =>
          /\ \A i \in 1..(Len(refl.r.critiques) - 1) : ~refl.r.critiques[i].pass
          /\ refl.result.val.pass = Last(refl.r.critiques).pass
          /\ refl.result.val.rounds_completed = Len(refl.r.critiques)
          /\ refl.critic_calls = refl.result.val.rounds_completed
          /\ refl.writer_calls = refl.result.val.rounds_completed - 1
          /\ ~refl.result.val.pass =>
                \/ ~refl.r.reflection_loops
                \/ refl.result.val.rounds_completed = refl.r.requested_rounds

\* the critique of round 2 passes while 3 rounds are allowed
C9_Witness ==
    /\ Returned
    /\ refl.result.val.pass
    /\ refl.result.val.rounds_completed = 2
    /\ refl.r.requested_rounds = 3

\* the entries the run in flight has appended
RunEntries == SubSeq(Journal, refl.start_len + 1, Len(Journal))

-----------------------------------------------------------------------------
(* Drafts and promoted artifacts under step execution, promotion and       *)
(* reflection                                                              *)

ArtifactSeeds == {Drafted(TRUE, 2), Redrafted(TRUE, 2), Stamped}

ArtifactsInit ==
    /\ SandboxOff /\ LoopOff /\ PlanOff /\ BusOff
    /\ \E seed \in ArtifactSeeds :
          /\ camp = seed.camp
          /\ uuids = seed.uuids
          /\ now = seed.now
    /\ refl = ReflIdle
    /\ last_op = NoOp
    /\ ops = 0

ArtifactsNext ==
    \/ ExecuteAgentStep \/ PromoteArtifact
    \/ ReflectionStart \/ CriticReplies \/ WriterReplies
    \/ Tick

SpecArtifacts == ArtifactsInit /\ [][ArtifactsNext]_vars

\* the step is a promotion that succeeded: promote_artifact, or the end of a
\* reflection run
Promotes ==
    /\ last_op'.ok
    /\ \/ ops' = ops + 1 /\ last_op'.op = "promote_artifact"
       \/ refl.pc = "critic" /\ refl'.pc = "returned"

\* C11: a successful promotion removes one draft, adds exactly one file to
\* promoted, holding the draft's text, and leaves every file promoted held
\* before in place with its text
C11_PromotionKeepsPromoted ==
    [][Promotes =>
          /\ \A n \in DOMAIN camp.promoted :
                n \in DOMAIN camp'.promoted /\ camp'.promoted[n] = camp.promoted[n]
          /\ Cardinality(DOMAIN camp'.promoted \ DOMAIN camp.promoted) = 1
          /\ Cardinality(DOMAIN camp.drafts \ DOMAIN camp'.drafts) = 1
          /\ DOMAIN camp'.drafts \subseteq DOMAIN camp.drafts]_vars


-----------------------------------------------------------------------------
(* Properties of decompose_task *)

\* the step is a decompose_task call
Decomposes == ops' = ops + 1 /\ last_op'.op = "decompose_task"

\* the roster team.json holds, empty while the file is missing
PersistedAgents == IF camp.team_json = None THEN <<>> ELSE camp.team_json[1].agents

NoAgentsMsg == <<"Team has no agents. Add at least one agent before decomposition.">>

\* C12: a decompose_task call that returns an error leaves the journal as it
\* found it; with an empty roster it returns the 'Team has no agents' error
\* whatever the task, and makes no chat-completion call
C12_FailedDecompositionJournalsNothing ==
    [][Decomposes =>
          /\ ~last_op'.ok => Journal' = Journal
          /\ PersistedAgents = <<>> =>
                /\ ~last_op'.ok
                /\ last_op'.err = NoAgentsMsg
                /\ ~last_op'.called]_vars

\* a plan failed validation after the chat-completion call, on a journal
\* that held entries
C12_Witness ==
    /\ last_op.op = "decompose_task"
    /\ ~last_op.ok
    /\ last_op.called
    /\ last_op.err \notin {ProviderError, UnparseableMsg}
    /\ last_op.before > 0

\* the usage of a chat-completion call as the journal records it
JournaledUsage(usage) ==
    [input |-> IF usage.prompt_tokens = None THEN 0 ELSE usage.prompt_tokens[1],
     output |-> IF usage.completion_tokens = None THEN 0 ELSE usage.completion_tokens[1]]

\* C13: a successful decompose_task with a plan of n steps appends exactly
\* n + 1 entries: a Decomposition entry from supervisor to all holding the
\* plan and the usage of the call, then for each step in plan order a
\* Delegation entry from supervisor to the step's agent with the step's id
\* and zero usage
C13_DecompositionEntries ==
    [][(Decomposes /\ last_op'.ok) =>
          LET plan == last_op'.plan
              n == Len(plan.steps)
              base == Len(Journal)
          IN /\ IsPrefix(Journal, Journal')
             /\ Len(Journal') = base + n + 1
             /\ Journal'[base + 1].entry_type = "Decomposition"
             /\ Journal'[base + 1].from = S_supervisor
             /\ Journal'[base + 1].to = S_all
             /\ Journal'[base + 1].step_id = None
             /\ Journal'[base + 1].content = plan
             /\ Journal'[base + 1].token_usage = JournaledUsage(last_op'.usage)
             /\ \A i \in 1..n :
                   /\ Journal'[base + 1 + i].entry_type = "Delegation"
                   /\ Journal'[base + 1 + i].from = S_supervisor
                   /\ Journal'[base + 1 + i].to = plan.steps[i].assigned_to
                   /\ Journal'[base + 1 + i].step_id = Some(plan.steps[i].step_id)
                   /\ Journal'[base + 1 + i].token_usage = [input |-> 0, output |-> 0]
                   /\ Journal'[base + 1 + i].content =
                         [instruction |-> plan.steps[i].instruction,
                          depends_on |-> plan.steps[i].depends_on,
                          expected_output |-> plan.steps[i].expected_output]]_vars

\* a plan of two steps for two agents was journaled after earlier entries
C13_Witness ==
    /\ last_op.op = "decompose_task"
    /\ last_op.ok
    /\ Len(last_op.plan.steps) = 2
    /\ last_op.plan.steps[1].assigned_to # last_op.plan.steps[2].assigned_to
    /\ last_op.before > 0
    /\ Len(Journal) = last_op.before + 3


-----------------------------------------------------------------------------
(* Properties of plan validation *)

\* an identifier that is not blank and holds no separator and no ".."
PathSafe(value) ==
    /\ trim(value) # <<>>
    /\ \A i \in 1..Len(value) : value[i] \notin {"/", "\\"}
    /\ \A i \in 1..(Len(value) - 1) : ~(value[i] = "." /\ value[i + 1] = ".")

StepIdsOf(steps) == {trim(steps[i].step_id) : i \in 1..Len(steps)}

\* step i names a dependency that is no step of the plan
UnknownDependencies(steps) ==
    {<<i, j>> \in (1..Len(steps)) \X (1..MaxSteps + 1) :
        /\ j <= Len(steps[i].depends_on)
        /\ trim(steps[i].depends_on[j]) \notin StepIdsOf(steps)}

\* every step passes the checks made step by step
StepChecksPass(roster, steps) ==
    /\ \A i \in 1..Len(steps) :
          /\ PathSafe(steps[i].step_id)
          /\ PathSafe(steps[i].assigned_to)
          /\ trim(steps[i].assigned_to) \in roster
          /\ trim(steps[i].instruction) # <<>>
          /\ \A j \in 1..Len(steps[i].depends_on) : PathSafe(steps[i].depends_on[j])
    /\ \A i, k \in 1..Len(steps) : i # k => trim(steps[i].step_id) # trim(steps[k].step_id)

PlanRoster == {plan_team.agents[i].id : i \in 1..Len(plan_team.agents)}

PlanRejected == plan_result # None /\ ~plan_result[1].ok

\* the error names step i and its dependency j
NamesBoth(err, steps, d) ==
    err = <<"Step ", trim(steps[d[1]].step_id), " depends on unknown step ",
            trim(steps[d[1]].depends_on[d[2]])>>

\* C14 as stated: whenever a step names a dependency that is not in the
\* plan, the plan is rejected with an error naming that step and dependency
C14_Original ==
    (plan_result # None /\ UnknownDependencies(plan_raw.steps) # {}) =>
        /\ PlanRejected
        /\ \E d \in UnknownDependencies(plan_raw.steps) :
              NamesBoth(plan_result[1].err, plan_raw.steps, d)

\* C14: a plan in which a step names a dependency that is not in the plan is
\* rejected, wherever the step stands; when every step passes the checks made
\* step by step, the error names the depending step and the missing dependency
C14_UnknownDependencyRejected ==
    (plan_result # None /\ UnknownDependencies(plan_raw.steps) # {}) =>
        /\ PlanRejected
        /\ StepChecksPass(PlanRoster, plan_raw.steps) =>
              \E d \in UnknownDependencies(plan_raw.steps) :
                  NamesBoth(plan_result[1].err, plan_raw.steps, d)

\* the second step of a plan depends on a step that is not there
C14_Witness ==
    /\ PlanRejected
    /\ Len(plan_raw.steps) = 2
    /\ StepChecksPass(PlanRoster, plan_raw.steps)
    /\ UnknownDependencies(plan_raw.steps) = {<<2, 1>>}
    /\ NamesBoth(plan_result[1].err, plan_raw.steps, <<2, 1>>)

\* the opening words of the errors that go on with a step id
StepErrors == {"Decomposition step ", "Duplicate step_id ", "Step "}

\* C16: every error of plan validation on a plan with steps names a step of
\* the plan
C16_ErrorsNameTheStep ==
    (PlanRejected /\ plan_raw.steps # <<>>) =>
        /\ plan_result[1].err[1] \in StepErrors
        /\ plan_result[1].err[2] \in StepIdsOf(plan_raw.steps)


\* the plan of the reply has a cycle and nothing else validation could refuse
CyclicPlanReply(op, roster) ==
    /\ op.called
    /\ op.parsed # None
    /\ op.parsed[1].steps # <<>>
    /\ StepChecksPass(roster, op.parsed[1].steps)
    /\ UnknownDependencies(op.parsed[1].steps) = {}
    /\ Cyclic(op.parsed[1].steps)

\* C15: a plan whose dependencies form a cycle (two steps depending on each
\* other, a step depending on itself) and that is otherwise valid passes
\* validation: decompose_task succeeds and journals the plan with its cycle
C15_CyclicPlanAccepted ==
    [][(Decomposes /\ CyclicPlanReply(last_op', {PersistedAgents[i].id : i \in 1..Len(PersistedAgents)})) =>
          /\ last_op'.ok
          /\ Cyclic(last_op'.plan.steps)
          /\ Len(Journal') > Len(Journal)
          /\ Journal'[Len(Journal) + 1].entry_type = "Decomposition"
          /\ Journal'[Len(Journal) + 1].content = last_op'.plan]_vars

\* a journaled plan in which two steps depend on each other and one of them
\* on itself
C15_Witness ==
    /\ last_op.op = "decompose_task"
    /\ last_op.ok
    /\ Len(last_op.plan.steps) = 2
    /\ DependsOn(last_op.plan.steps, 1, 2)
    /\ DependsOn(last_op.plan.steps, 2, 1)
    /\ DependsOn(last_op.plan.steps, 2, 2)
    /\ Journal[last_op.before + 1].content.steps = last_op.plan.steps


-----------------------------------------------------------------------------
(* Properties of the roster and of the settings *)

RosterIds == {PersistedAgents[i].id : i \in 1..Len(PersistedAgents)}

Creates == ops' = ops + 1 /\ last_op'.op = "create_team_agent"

\* the agent create_team_agent stores for its input
StoredAgent(input) ==
    [id |-> trim(input.id), role |-> trim(input.role), model |-> trim(input.model),
     tool_subset |-> normalize_tool_subset(input.tool_subset),
     description |-> trim(input.description)]

\* C17: the persisted roster never holds more than 8 agents; on a roster of 8
\* create_team_agent with an id that is not in the roster fails and leaves
\* the roster as it was, and with an id of the roster it succeeds (given a
\* role and a model) and puts the new agent in the place of the old one
C17_RosterCapped ==
    /\ [](Len(PersistedAgents) <= TEAM_MAX_AGENTS)
    /\ [][(Creates /\ Len(PersistedAgents) = TEAM_MAX_AGENTS) =>
             IF trim(last_op'.input.id) \notin RosterIds
             THEN ~last_op'.ok /\ PersistedAgents' = PersistedAgents
             ELSE /\ last_op'.ok <=>
                        (trim(last_op'.input.role) # <<>> /\ trim(last_op'.input.model) # <<>>)
                  /\ last_op'.ok =>
                        /\ Len(PersistedAgents') = TEAM_MAX_AGENTS
                        /\ \A i \in 1..TEAM_MAX_AGENTS :
                              PersistedAgents'[i] =
                                  IF PersistedAgents[i].id = trim(last_op'.input.id)
                                  THEN StoredAgent(last_op'.input)
                                  ELSE PersistedAgents[i]]_vars

\* the writer of a roster of eight was replaced
C17_Witness ==
    /\ last_op.op = "create_team_agent"
    /\ last_op.ok
    /\ ops = 1
    /\ Len(PersistedAgents) = TEAM_MAX_AGENTS
    /\ last_op.input = WriterInput
    /\ \E i \in 1..Len(PersistedAgents) : PersistedAgents[i] = StoredAgent(WriterInput)

\* C18: the ids of the persisted roster are pairwise distinct and the roster
\* is in the order of its ids compared without regard to case
C18_RosterDistinctAndSorted ==
    \A i, j \in 1..Len(PersistedAgents) :
        i < j =>
            /\ PersistedAgents[i].id # PersistedAgents[j].id
            /\ ~StrLess(ascii_lowercase(PersistedAgents[j].id),
                        ascii_lowercase(PersistedAgents[i].id))

\* an agent B was added to a roster that holds b and C
C18_Witness ==
    /\ last_op.op = "create_team_agent"
    /\ last_op.ok
    /\ \E i \in 1..(Len(PersistedAgents) - 2) :
          /\ PersistedAgents[i].id = <<"b">>
          /\ PersistedAgents[i + 1].id = <<"B">>
          /\ PersistedAgents[i + 2].id = <<"C">>

Normal(team_config) ==
    /\ team_config.max_reflection_rounds \in 1..8
    /\ trim(team_config.supervisor_model) # <<>>

Clamped(v) == IF v < 1 THEN 1 ELSE IF v > 8 THEN 8 ELSE v

\* C19: the configuration load_team_config returns to an operation and the
\* configuration an operation writes have max_reflection_rounds in 1..8 and
\* a supervisor_model that is not blank, the session's model standing in for
\* a blank one; update_team_settings stores the requested rounds clamped to
\* 1..8
C19_SettingsNormalized ==
    [][ops' = ops + 1 =>
          /\ Normal(load_team_config(World).config)
          /\ (camp.team_json # None /\ trim(camp.team_json[1].supervisor_model) = <<>>) =>
                load_team_config(World).config.supervisor_model = CampModel
          /\ camp'.team_json # camp.team_json => Normal(camp'.team_json[1])
          /\ (last_op'.op = "update_team_settings" /\ last_op'.ok) =>
                camp'.team_json[1].max_reflection_rounds =
                    Clamped(last_op'.input.max_reflection_rounds)]_vars

\* a request for 0 rounds was stored as 1, with the trimmed supervisor_model
C19_Witness ==
    /\ last_op.op = "update_team_settings"
    /\ last_op.ok
    /\ ops = 1
    /\ last_op.input.max_reflection_rounds = 0
    /\ camp.team_json[1].max_reflection_rounds = 1
    /\ camp.team_json[1].supervisor_model = trim(last_op.input.supervisor_model)

RosterOps == {"create_team_agent", "remove_team_agent", "update_team_settings"}

\* C20: after a roster operation, failed or not, the agent folders are the
\* folders of the agents of the persisted roster
C20_RosterMatchesFolders ==
    last_op.op \in RosterOps => DOMAIN camp.agent_dirs = RosterIds


-----------------------------------------------------------------------------
(* Properties of get_team_status *)

\* get_team_status returned the status of a team
Reported == last_op.op = "get_team_status" /\ last_op.ok /\ last_op.status.is_team

Decompositions == {i \in 1..Len(Journal) : Journal[i].entry_type = "Decomposition"}

\* the steps of the latest plan of the journal
CurrentSteps ==
    IF Decompositions = {} THEN <<>>
    ELSE Journal[CHOOSE i \in Decompositions : \A j \in Decompositions : j <= i].content.steps

StepEntryTypes == {"Delegation", "Result", "Error"}

StepEntries(step_id) ==
    {i \in 1..Len(Journal) :
        Journal[i].step_id = Some(step_id) /\ Journal[i].entry_type \in StepEntryTypes}

LastStepEntry(step_id) ==
    Journal[CHOOSE i \in StepEntries(step_id) : \A j \in StepEntries(step_id) : j <= i]

ExpectedStepStatus(step_id) ==
    IF StepEntries(step_id) = {} THEN "pending"
    ELSE IF LastStepEntry(step_id).entry_type = "Delegation" THEN "running"
    ELSE IF LastStepEntry(step_id).entry_type = "Result" THEN "complete"
    ELSE "failed"

\* C21: get_team_status reports the steps of the latest plan, each with the
\* status of the last Delegation, Result or Error entry of the journal that
\* carries its id: running, complete, failed, and pending without such an entry
C21_StepStatus ==
    Reported =>
        /\ Len(last_op.status.steps) = Len(CurrentSteps)
        /\ \A i \in 1..Len(CurrentSteps) :
              /\ last_op.status.steps[i].step_id = CurrentSteps[i].step_id
              /\ last_op.status.steps[i].status = ExpectedStepStatus(CurrentSteps[i].step_id)

\* a step that was run and then planned again is reported running
C21_Witness ==
    /\ Reported
    /\ Cardinality(Decompositions) = 2
    /\ Len(last_op.status.steps) = 1
    /\ last_op.status.steps[1].status = "running"
    /\ \E i \in StepEntries(last_op.status.steps[1].step_id) : Journal[i].entry_type = "Result"


AgentEntries(agent_id) == {i \in 1..Len(Journal) : Journal[i].from = agent_id}

\* the most recent entry of the agent is a Critique
LastEntryIsCritique(agent_id) ==
    /\ AgentEntries(agent_id) # {}
    /\ Journal[CHOOSE i \in AgentEntries(agent_id) :
                  \A j \in AgentEntries(agent_id) : j <= i].entry_type = "Critique"

ExpectedAgentStatus(agent_id, steps) ==
    IF \E i \in 1..Len(steps) : steps[i].assigned_to = agent_id /\ steps[i].status = "running"
    THEN "working"
    ELSE IF LastEntryIsCritique(agent_id) THEN "reflecting"
    ELSE "idle"

\* C22: get_team_status reports an agent working while a step of the current
\* plan assigned to it is running, otherwise reflecting when the most recent
\* journal entry from the agent is a Critique, otherwise idle
C22_AgentStatus ==
    Reported =>
        \A i \in 1..Len(last_op.status.agents) :
            last_op.status.agents[i].status =
                ExpectedAgentStatus(last_op.status.agents[i].id, last_op.status.steps)


\* the usage of the entries i.. of the journal that come from the agent
RECURSIVE UsageFrom(_, _)
UsageFrom(agent_id, i) ==
    IF i > Len(Journal) THEN ZeroUsage
    ELSE IF Journal[i].from # agent_id THEN UsageFrom(agent_id, i + 1)
    ELSE [input |-> Journal[i].token_usage.input + UsageFrom(agent_id, i + 1).input,
          output |-> Journal[i].token_usage.output + UsageFrom(agent_id, i + 1).output]

\* C23: get_team_status reports for every agent of the roster the sum of the
\* token usage of the journal entries that come from the agent's id
C23_AgentUsage ==
    Reported =>
        \A i \in 1..Len(last_op.status.agents) :
            last_op.status.agents[i].token_usage = UsageFrom(last_op.status.agents[i].id, 1)


-----------------------------------------------------------------------------
(* Properties of execute_agent_step *)

\* the step is an execute_agent_step call that succeeded
Executes == ops' = ops + 1 /\ last_op'.op = "execute_agent_step" /\ last_op'.ok

\* C29: a successful execute_agent_step leaves every draft held before in
\* place with its text and writes its output to one new file
C29_DraftsNeverOverwritten ==
    [][Executes =>
          /\ \A n \in DOMAIN camp.drafts :
                n \in DOMAIN camp'.drafts /\ camp'.drafts[n] = camp.drafts[n]
          /\ Cardinality(DOMAIN camp'.drafts \ DOMAIN camp.drafts) = 1]_vars


-----------------------------------------------------------------------------
(* Properties of a turn of the tool-call loop *)

\* the step is a chat response received by the loop
Responds == loop_pc = "request" /\ response' # None /\ requests' = requests + 1 /\ loop_pc' # "error"

\* the files and the written paths after the first k tool calls of the turn,
\* each executed on what the one before left
RECURSIVE AfterCalls(_, _)
AfterCalls(calls, k) ==
    IF k = 0 THEN [fs |-> fs, writes |-> writes]
    ELSE LET before == AfterCalls(calls, k - 1)
             left(out) == [fs |-> out.fs, writes |-> out.writes]
         IN left(execute_team_tool_call(before.fs, CtxRoot, calls[k], before.writes))

\* what the k-th tool call of the turn returns
ResultOfCall(calls, k) ==
    execute_team_tool_call(AfterCalls(calls, k - 1).fs, CtxRoot, calls[k],
                           AfterCalls(calls, k - 1).writes).result

\* C30: the tool calls of a response are executed one after the other in the
\* order of the response, each on the files the one before left; each adds
\* one tool message, in that order, holding its result or its error object;
\* and a failing call does not keep the loop from its next request
C30_TurnInOrder ==
    [][Responds =>
          LET calls == response'[1].tool_calls
          IN /\ Len(turn_msgs') = Len(calls)
             /\ \A k \in 1..Len(calls) :
                   /\ turn_msgs'[k].role = "tool"
                   /\ calls[k].id # None => turn_msgs'[k].tool_call_id = calls[k].id[1]
                   /\ calls[k].name # None => turn_msgs'[k].name = calls[k].name[1]
                   /\ turn_msgs'[k].content = ResultOfCall(calls, k)
             /\ fs' = AfterCalls(calls, Len(calls)).fs
             /\ writes' = AfterCalls(calls, Len(calls)).writes
             /\ (calls # <<>> /\ requests' < TEAM_MAX_TOOL_LOOPS) => loop_pc' = "request"]_vars

\* a turn of two calls: the first one failed, the second one wrote its file,
\* and the loop goes on
C30_Witness ==
    /\ loop_pc = "request"
    /\ response # None
    /\ Len(turn_msgs) = 2
    /\ IsErrorObject(turn_msgs[1].content)
    /\ ~IsErrorObject(turn_msgs[2].content)
    /\ turn_msgs[2].name = "write_file"
    /\ writes # <<>>


\* the step is a get_team_status call
ReadsStatus == ops' = ops + 1 /\ last_op'.op = "get_team_status"

\* C28: get_team_status succeeds and leaves team.json, camp.json, the journal,
\* the drafts and the promoted artifacts as they are, and a second call right
\* after a first one returns the same status
C28_StatusIsPureRead ==
    [][ReadsStatus =>
          /\ last_op'.ok
          /\ camp'.team_json = camp.team_json
          /\ camp'.camp_json = camp.camp_json
          /\ Journal' = Journal
          /\ camp'.drafts = camp.drafts
          /\ camp'.promoted = camp.promoted
          /\ last_op.op = "get_team_status" => last_op'.status = last_op.status]_vars

\* the second of two calls in a row, on a team with a journal and a draft, at
\* a later time than the last write of camp.json
C28_Witness ==
    /\ Reported
    /\ ops = 2
    /\ last_op.status.bus_entries > 0
    /\ last_op.status.artifacts.drafts # <<>>
    /\ camp.camp_json.updated_at < now
    /\ Journal # <<>>


-----------------------------------------------------------------------------
(* Properties of the requests that fail a check *)

\* the roster load_team_config returns
LoadedAgents == normalize_team_config(
                    [agents |-> PersistedAgents, supervisor_model |-> <<>>,
                     reflection_loops |-> TRUE, max_reflection_rounds |-> 1]).agents

HasRole(role_name) ==
    \E i \in 1..Len(LoadedAgents) :
        \/ ascii_lowercase(LoadedAgents[i].role) = role_name
        \/ ascii_lowercase(LoadedAgents[i].id) = role_name

\* the operation starting in this step is an execute_agent_step for an agent
\* that is not in the roster or is not the one the step is assigned to
WrongAgent ==
    /\ ops' = ops + 1
    /\ last_op'.op = "execute_agent_step"
    /\ \/ \A i \in 1..Len(LoadedAgents) : LoadedAgents[i].id # trim(last_op'.agent_id)
       \/ last_op'.step.assigned_to # trim(last_op'.agent_id)

\* the operation starting in this step is a run_reflection_loop on a roster
\* without a writer or without a critic
NoReviewers ==
    /\ ops' = ops + 1
    /\ last_op'.op = "run_reflection_loop"
    /\ ~(HasRole(<<"w", "r", "i", "t", "e", "r">>) /\ HasRole(<<"c", "r", "i", "t", "i", "c">>))

\* C25: execute_agent_step for an agent that is not in the roster or differs
\* from step.assigned_to, and run_reflection_loop on a roster without a
\* writer or without a critic, fail without a chat-completion call, without
\* a journal entry and with the drafts and promoted files as they were
C25_FailedChecksChangeNothing ==
    [][(WrongAgent \/ NoReviewers) =>
          /\ ~last_op'.ok
          /\ WrongAgent => ~last_op'.called
          /\ NoReviewers => refl'.pc = "returned" /\ refl'.critic_calls = 0 /\ refl'.writer_calls = 0
          /\ Journal' = Journal
          /\ camp'.drafts = camp.drafts
          /\ camp'.promoted = camp.promoted]_vars

\* a reflection run was refused on a team that has a critic, a draft and a
\* journal, and has lost its writer
C25_Witness ==
    /\ last_op.op = "run_reflection_loop"
    /\ ~last_op.ok
    /\ HasRole(<<"c", "r", "i", "t", "i", "c">>)
    /\ ~HasRole(<<"w", "r", "i", "t", "e", "r">>)
    /\ DOMAIN camp.drafts # {}
    /\ Journal # <<>>


-----------------------------------------------------------------------------
(* Properties of a reflection run that fails *)

\* the run returns an error in this step, after its checks had passed
RunFails == refl.pc \in {"critic", "writer"} /\ refl'.pc = "returned" /\ ~refl'.result.ok

\* no other operation has started since the run started
RunAlone == ops = refl.started_at

DraftName == Last(refl.r.draft_path)

\* the entries of a type appended since the run started
EntriesSince(entry_type) ==
    {i \in (refl.start_len + 1)..Len(Journal) : Journal[i].entry_type = entry_type}

DraftHoldsRevision ==
    /\ DraftName \in DOMAIN camp'.drafts
    /\ camp'.drafts[DraftName] = refl.r.artifact_body

\* the entries the step appends
NewEntries == SubSeq(Journal', Len(Journal) + 1, Len(Journal'))

NoPromotionAppended ==
    /\ IsPrefix(Journal, Journal')
    /\ \A i \in 1..Len(NewEntries) : NewEntries[i].entry_type # "Promotion"

\* C26 as stated: whenever a run fails, the journal keeps its entries, no
\* Promotion is appended, and the draft is in drafts with the text of the
\* latest completed revision
C26_Original ==
    [][RunFails => NoPromotionAppended /\ DraftHoldsRevision]_vars

\* C26: the step in which a run fails keeps the entries of the journal,
\* appends no Promotion and leaves drafts and promoted as they are.  When no
\* other operation acted during the run, the failure is one of a
\* chat-completion call or of an unparseable critique, it appends nothing,
\* the journal holds one Critique for every critique parsed and one Result of
\* the writer for every revision, and the draft is in drafts with the text
\* of the latest revision.  The promotion fails only after another operation
\* has moved the draft, and its critique is journaled
C26_FailureKeepsWhatWasDone ==
    [][RunFails =>
          /\ NoPromotionAppended
          /\ camp'.drafts = camp.drafts
          /\ camp'.promoted = camp.promoted
          /\ refl'.call_failed => Journal' = Journal
          /\ RunAlone =>
                /\ refl'.call_failed
                /\ DraftHoldsRevision
                /\ Cardinality(EntriesSince("Critique")) = Len(refl.r.critiques)
                /\ Cardinality(EntriesSince("Result")) = refl.r.round - 1
                /\ EntriesSince("Promotion") = {}
          /\ ~refl'.call_failed =>
                /\ DraftName \notin DOMAIN camp.drafts
                /\ Len(NewEntries) = 1
                /\ NewEntries[1].entry_type = "Critique"]_vars

\* a run has failed in its second round, with nothing else going on: the
\* journal holds its first critique and the revision, the draft the revision
C26_Witness ==
    /\ refl.pc = "returned"
    /\ ~refl.result.ok
    /\ refl.call_failed
    /\ RunAlone
    /\ refl.r.round = 2
    /\ Len(refl.r.critiques) = 1
    /\ camp.drafts[DraftName] = <<"v", "1">>


-----------------------------------------------------------------------------
(* execute_agent_step with its tool-call loop.  A call is cut at the chat  *)
(* requests of run_agent_inference_loop: the part up to the first request, *)
(* and one part per response, the last of which goes on to the draft and   *)
(* the journal.  Calls in flight take turns at these points.  The steps    *)
(* are assigned to the writer; fs holds the writer's context folder.       *)

MaxStepTurns == 2

WriteAA ==
    [id |-> Some("c3"), name |-> Some("write_file"),
     args |-> ArgsOf(Some(NameAA), Some(<<"x">>), None)]

WriteNoContent ==
    [id |-> Some("c4"), name |-> Some("write_file"), args |-> ArgsOf(Some(NameA), None, None)]

\* a final answer, and a turn of three write_file calls, the second failing
StepResponses ==
    { [output_text |-> <<" ", "t">>,
       usage |-> [prompt_tokens |-> Some(1), completion_tokens |-> Some(2)],
       tool_calls |-> <<>>],
      [output_text |-> <<>>,
       usage |-> [prompt_tokens |-> Some(3), completion_tokens |-> None],
       tool_calls |-> <<WriteAA, WriteNoContent, WriteA>>] }

\* the agent and the step
StepInputs == {<<WriterId, StepOne>>, <<WriterId, StepStamped>>, <<CriticId, StepOne>>}

StepSeeds == {Planned, RanOne}

\* a call entering run_agent_inference_loop
NewCall(agent, step, step_id, overlapping) ==
    [pc |-> "loop", agent |-> agent, step |-> step, step_id |-> step_id,
     requests |-> 0, total_usage |-> ZeroUsage, final_output |-> <<>>, writes |-> <<>>,
     usages |-> <<>>, tool_msgs |-> <<>>, overlapping |-> overlapping,
     entry |-> 0, result |-> <<>>]

\* the run_agent_inference_loop of a call, as execute_agent_step receives it
RunOf(c, ok) ==
    [ok |-> ok, err |-> IF ok THEN "" ELSE ProviderError, output_text |-> c.final_output,
     context_writes |-> c.writes, token_usage |-> c.total_usage]

InLoop == {i \in 1..Len(running) : running[i].pc = "loop"}

StepInit ==
    /\ PlanOff /\ BusOff
    /\ fs = BaseFs
    /\ fs0 = fs
    /\ writes = <<>>
    /\ call = None
    /\ result = None
    /\ sb_pc = "off"
    /\ LoopOff
    /\ \E seed \in StepSeeds :
          /\ camp = seed.camp
          /\ uuids = seed.uuids
          /\ now = seed.now
    /\ refl = ReflIdle
    /\ last_op = NoOp
    /\ ops = 0

StepUnchanged ==
    UNCHANGED <<now, refl, fs0, writes, call, result, sb_pc, loop_pc, requests, tool_subset,
                offered, response, turn_msgs, final_output, total_usage, planVars, busVars>>

\* execute_agent_step is invoked: it returns an error, or sends its first
\* chat request
StepBegins ==
    /\ ops < MaxOps
    /\ \E input \in StepInputs :
          \E b \in {execute_agent_step_begin(World, input[1], input[2])} :
              /\ camp' = b.w.camp
              /\ uuids' = b.w.uuids
              /\ running' = IF ~b.res.ok THEN running
                            ELSE Append(running, NewCall(b.res.val.agent, input[2],
                                                         b.res.val.step_id, InLoop # {}))
              /\ last_op' = [op |-> IF b.res.ok THEN "execute_agent_step_begin"
                                    ELSE "execute_agent_step",
                             ok |-> b.res.ok, before |-> Len(Journal), err |-> b.res.err]
    /\ ops' = ops + 1
    /\ fs' = fs
    /\ StepUnchanged

\* the call returns what execute_agent_step_finish returns
StepReturns(i, after, out) ==
    /\ camp' = out.w.camp
    /\ uuids' = out.w.uuids
    /\ running' = [running EXCEPT ![i] =
                      [after EXCEPT !.pc = "returned", !.result = out.res,
                                    !.entry = IF out.w.camp.bus = None THEN 0
                                              ELSE Len(out.w.camp.bus[1])]]
    /\ last_op' = [op |-> "execute_agent_step", ok |-> out.res.ok, before |-> Len(Journal),
                   err |-> out.res.err]

\* the loop of the call goes on to its next chat request
StepContinues(i, after) ==
    /\ camp' = [camp EXCEPT !.agent_dirs[after.agent.id].context =
                   @ \cup {after.writes[k] : k \in 1..Len(after.writes)}]
    /\ uuids' = uuids
    /\ running' = [running EXCEPT ![i] = after]
    /\ last_op' = [op |-> "chat_response", ok |-> TRUE, before |-> Len(Journal), err |-> ""]

\* a chat response arrives for a call: its tool calls are executed, and the
\* call returns when the loop ends
StepChatResponse ==
    /\ \E i \in InLoop :
          \E r \in StepResponses :
              /\ r.tool_calls = <<>> \/ running[i].requests < MaxStepTurns
              /\ \E ran \in {run_tool_calls(fs, running[i].writes, r.tool_calls, <<>>)} :
                    \E after \in {[running[i] EXCEPT
                                      !.requests = @ + 1,
                                      !.total_usage = accumulate_usage(@, r.usage),
                                      !.final_output = trim(r.output_text),
                                      !.writes = ran.writes,
                                      !.usages = Append(@, r.usage),
                                      !.tool_msgs = @ \o ran.msgs]} :
                        /\ fs' = ran.fs
                        /\ IF loop_ends(r.tool_calls, after.requests)
                           THEN \E out \in {execute_agent_step_finish(
                                                World, after.agent, after.step, after.step_id,
                                                RunOf(after, TRUE))} :
                                    StepReturns(i, after, out)
                           ELSE StepContinues(i, after)
    /\ ops' = ops
    /\ StepUnchanged

\* the chat-completion service fails for a call: `.await?` returns the error
StepChatFails ==
    /\ \E i \in InLoop :
          \E after \in {[running[i] EXCEPT !.requests = @ + 1]} :
              \E out \in {execute_agent_step_finish(World, after.agent, after.step,
                                                     after.step_id, RunOf(after, FALSE))} :
                  StepReturns(i, after, out)
    /\ ops' = ops
    /\ fs' = fs
    /\ StepUnchanged

StepNext == StepBegins \/ StepChatResponse \/ StepChatFails

SpecStep == StepInit /\ [][StepNext]_vars

-----------------------------------------------------------------------------
(* Properties of execute_agent_step with its loop *)

\* call i returns in this step
Returns(i) == running[i].pc = "loop" /\ running'[i].pc = "returned"

RECURSIVE UsageSum(_)
UsageSum(usages) ==
    IF usages = <<>> THEN [input |-> 0, output |-> 0]
    ELSE LET plus(rest, u) ==
                 [input |-> rest.input + (IF u.prompt_tokens = None THEN 0 ELSE u.prompt_tokens[1]),
                  output |-> rest.output
                             + (IF u.completion_tokens = None THEN 0 ELSE u.completion_tokens[1])]
         IN plus(UsageSum(Front(usages)), Last(usages))

\* the paths of the write_file calls answered without an error object
RECURSIVE WrittenPaths(_)
WrittenPaths(msgs) ==
    IF msgs = <<>> THEN <<>>
    ELSE IF Head(msgs).name = "write_file" /\ ~IsErrorObject(Head(msgs).content)
    THEN <<Head(msgs).content.path>> \o WrittenPaths(Tail(msgs))
    ELSE WrittenPaths(Tail(msgs))

ResultEntryOf(c, e) ==
    /\ e.entry_type = "Result"
    /\ e.from = c.agent.id
    /\ e.to = S_supervisor
    /\ e.step_id = Some(trim(c.step.step_id))

\* C24: a call that returns successfully appends one entry, a Result from
\* the agent to the supervisor with the step's id, whose token_usage is the
\* sum of the usages of the chat responses of its loop and whose
\* context_writes are the paths of its successful write_file calls in call
\* order; a call that fails appends nothing and leaves the drafts alone
C24_OneResultPerStep ==
    [][\A i \in 1..Len(running) :
          Returns(i) =>
             IF running'[i].result.ok
             THEN /\ Len(Journal') = Len(Journal) + 1
                  /\ IsPrefix(Journal, Journal')
                  /\ ResultEntryOf(running[i], Last(Journal'))
                  /\ Last(Journal').token_usage = UsageSum(running'[i].usages)
                  /\ Last(Journal').content.context_writes
                        = WrittenPaths(running'[i].tool_msgs)
             ELSE /\ Journal' = Journal
                  /\ camp'.drafts = camp.drafts
                  /\ camp'.promoted = camp.promoted]_vars

\* a call has returned after three responses and four files written, and a
\* call has failed after a response with its files written
C24_Witness ==
    /\ \E i \in 1..Len(running) :
          /\ running[i].pc = "returned"
          /\ running[i].result.ok
          /\ Len(running[i].usages) = 3
          /\ Journal[running[i].entry].token_usage = [input |-> 7, output |-> 2]
          /\ Len(Journal[running[i].entry].content.context_writes) = 4
    /\ \E i \in 1..Len(running) :
          /\ running[i].pc = "returned"
          /\ ~running[i].result.ok
          /\ running[i].writes # <<>>

ReturnedOk == {i \in 1..Len(running) : running[i].pc = "returned" /\ running[i].result.ok}

\* C27: every call that has returned successfully has its own Result entry
\* in the journal, whatever other calls were in flight for the same step
C27_EveryCallJournaled ==
    \A i \in ReturnedOk :
        /\ running[i].entry \in 1..Len(Journal)
        /\ ResultEntryOf(running[i], Journal[running[i].entry])
        /\ \A j \in ReturnedOk : j # i => running[j].entry # running[i].entry

\* two calls for the same step of the current plan, the second invoked while
\* the first was in its loop, have both returned: the journal holds two
\* Result entries for the step after the plan
C27_Witness ==
    /\ Decompositions # {}
    /\ \E i \in ReturnedOk : \E j \in ReturnedOk :
          /\ i < j
          /\ running[j].overlapping
          /\ running[i].step_id = running[j].step_id
          /\ \E k \in 1..Len(CurrentSteps) : CurrentSteps[k].step_id = running[i].step_id
          /\ \A d \in Decompositions : d < running[i].entry /\ d < running[j].entry
          /\ Journal[running[i].entry].step_id = Journal[running[j].entry].step_id


-----------------------------------------------------------------------------
(* Scaffold provisioning on the files of the camp directory.  fs is the    *)
(* camp directory, its root the directory <<>>; call is the provisioning   *)
(* run last, result what it returned, fs0 the files it found.              *)

SupervisorDir == << <<"supervisor">> >>
AgentsRoot == << <<"agents">> >>
TeamBusPath == << <<"team_bus.jsonl">> >>
PromptName == <<"system_prompt.md">>
TranscriptName == <<"transcript.jsonl">>
ToolsName == <<"tools.json">>
ContextName == <<"context">>

agent_dir(agent_id) == Append(AgentsRoot, agent_id)

\* Path::exists: the path resolves, links followed
path_exists(f, path) == Resolve(f, <<>>, path, LinkFuel).ok

\* fs::write(path, contents)
write_path(f, path, contents) ==
    LET open(par) ==
            IF par.ok /\ is_dir(f, par.val)
            THEN OpenCreate(f, Append(par.val, Last(path)), contents, LinkFuel)
            ELSE [ok |-> FALSE, fs |-> f]
    IN open(Resolve(f, <<>>, Front(path), LinkFuel))

\* the file written whether it exists or not
write_text_always(f, path, contents) ==
    LET made(m) == IF ~m.ok THEN m ELSE write_path(m.fs, path, contents)
    IN made(create_dir_all(f, <<>>, Front(path)))

write_text_if_missing(f, path, contents) ==
    LET made(m) == IF ~m.ok THEN m ELSE write_path(m.fs, path, contents)
    IN IF path_exists(f, path) THEN [ok |-> TRUE, fs |-> f]
       ELSE made(create_dir_all(f, <<>>, Front(path)))

\* `if !path.exists() { write_json_file(path, value)? }`
write_json_if_missing(f, path, value) ==
    IF path_exists(f, path) THEN [ok |-> TRUE, fs |-> f] ELSE write_path(f, path, value)

\* the calls of a scaffold function one after the other, up to the first error
RECURSIVE all_of(_, _)
all_of(f, calls) ==
    IF calls = <<>> THEN [ok |-> TRUE, fs |-> f]
    ELSE LET next(out) == IF ~out.ok THEN out ELSE all_of(out.fs, Tail(calls))
             one(c) ==
                 CASE c.call = "create_dir_all" -> create_dir_all(f, <<>>, c.path)
                   [] c.call = "write_text_if_missing" ->
                          write_text_if_missing(f, c.path, c.contents)
                   [] c.call = "write_json_if_missing" ->
                          write_json_if_missing(f, c.path, c.contents)
         IN next(one(Head(calls)))

ensure_agent_scaffold_calls(agent) ==
    << [call |-> "create_dir_all", path |-> agent_dir(agent.id)],
       [call |-> "create_dir_all", path |-> Append(agent_dir(agent.id), ContextName)],
       [call |-> "write_text_if_missing", path |-> Append(agent_dir(agent.id), PromptName),
        contents |-> default_agent_prompt(agent)],
       [call |-> "write_text_if_missing", path |-> Append(agent_dir(agent.id), TranscriptName),
        contents |-> <<>>],
       [call |-> "write_json_if_missing", path |-> Append(agent_dir(agent.id), ToolsName),
        contents |-> normalize_tool_subset(agent.tool_subset)] >>

\* ensure_agent_scaffold on the files
ensure_agent_scaffold_files(f, agent) == all_of(f, ensure_agent_scaffold_calls(agent))

RECURSIVE agents_scaffold_calls(_)
agents_scaffold_calls(agents) ==
    IF agents = <<>> THEN <<>>
    ELSE ensure_agent_scaffold_calls(Head(agents)) \o agents_scaffold_calls(Tail(agents))

\* ensure_team_scaffold on the files
ensure_team_scaffold_files(f, team_config) ==
    all_of(f,
           << [call |-> "create_dir_all", path |-> SupervisorDir],
              [call |-> "create_dir_all", path |-> AgentsRoot],
              [call |-> "create_dir_all", path |-> DraftsRoot],
              [call |-> "create_dir_all", path |-> PromotedRoot],
              [call |-> "write_text_if_missing", path |-> Append(SupervisorDir, PromptName),
               contents |-> <<"default_supervisor_prompt">>],
              [call |-> "write_text_if_missing", path |-> Append(SupervisorDir, TranscriptName),
               contents |-> <<>>],
              [call |-> "write_json_if_missing", path |-> Append(SupervisorDir, ToolsName),
               contents |-> <<>>],
              [call |-> "write_text_if_missing", path |-> TeamBusPath, contents |-> <<>>] >>
           \o agents_scaffold_calls(team_config.agents))

(* The camp directories provisioning may find *)

Mine == File(<<"m", "i", "n", "e">>)
Elsewhere == << <<"elsewhere">> >>

SupervisorFound ==
    { <<>>,
      SupervisorDir :> Mine,
      (SupervisorDir :> Dir) @@ (Append(SupervisorDir, PromptName) :> Mine),
      (SupervisorDir :> Dir) @@ (Append(SupervisorDir, ToolsName) :> Mine)
          @@ (Append(SupervisorDir, TranscriptName) :> Link(Elsewhere)) }

WriterDir == agent_dir(WriterId)

AgentFound ==
    { <<>>,
      (AgentsRoot :> Dir) @@ (WriterDir :> Dir),
      (AgentsRoot :> Dir) @@ (WriterDir :> Dir) @@ (Append(WriterDir, PromptName) :> Mine)
          @@ (Append(WriterDir, ToolsName) :> File(<<"read_file">>)),
      (AgentsRoot :> Dir) @@ (WriterDir :> Dir) @@ (Append(WriterDir, PromptName) :> Link(Elsewhere)),
      (AgentsRoot :> Dir) @@ (WriterDir :> Dir)
          @@ (Append(WriterDir, ToolsName) :> Link(<< <<"nowhere">> >>)),
      (AgentsRoot :> Dir) @@ (WriterDir :> Dir) @@ (Append(WriterDir, ContextName) :> Mine) }

BusFound == { <<>>, TeamBusPath :> Mine, TeamBusPath :> Link(<< <<"nowhere">> >>) }

CampDirs ==
    { (<<>> :> Dir) @@ (Elsewhere :> File(<<"k", "e", "e", "p">>)) @@ s @@ a @@ b :
        s \in SupervisorFound, a \in AgentFound, b \in BusFound }

\* rosters: none, the writer, the writer and the critic, and a roster naming
\* the writer twice with different tools
ScaffoldRosters ==
    { <<>>, <<StoredAgent(WriterInput)>>, <<StoredAgent(WriterInput), CriticInput>>,
      <<StoredAgent(WriterInput),
        [StoredAgent(WriterInput) EXCEPT !.tool_subset = <<"web_search">>]>> }

ScaffoldInit ==
    /\ LoopOff /\ PlanOff /\ BusOff /\ TeamOff
    /\ fs \in CampDirs
    /\ fs0 = fs
    /\ writes = <<>>
    /\ call = None
    /\ result = None
    /\ sb_pc = "ready"

Provisioned(name, input, out) ==
    /\ call' = Some([name |-> name, input |-> input])
    /\ result' = Some(out.ok)
    /\ fs0' = fs
    /\ fs' = out.fs
    /\ sb_pc' = "done"
    /\ UNCHANGED <<writes, loopVars, planVars, busVars, teamVars>>

EnsureTeamScaffold ==
    \E agents \in ScaffoldRosters :
        \E out \in {ensure_team_scaffold_files(fs, [agents |-> agents])} :
            Provisioned("ensure_team_scaffold", agents, out)

EnsureAgentScaffold ==
    \E agent \in {StoredAgent(WriterInput), CriticInput} :
        \E out \in {ensure_agent_scaffold_files(fs, agent)} :
            Provisioned("ensure_agent_scaffold", agent, out)

ScaffoldNext == EnsureTeamScaffold \/ EnsureAgentScaffold

SpecScaffold == ScaffoldInit /\ [][ScaffoldNext]_vars

-----------------------------------------------------------------------------
(* Properties of scaffold provisioning *)

\* the provisioning run last, run once more on the files it left
ProvisionedAgain ==
    IF call[1].name = "ensure_team_scaffold"
    THEN ensure_team_scaffold_files(fs, [agents |-> call[1].input])
    ELSE ensure_agent_scaffold_files(fs, call[1].input)

\* C31: provisioning leaves every file, folder and link it finds as it is,
\* whether it succeeds or fails, and provisioning the result again changes
\* nothing
C31_ScaffoldKeepsContent ==
    sb_pc = "done" =>
        /\ \A p \in DOMAIN fs0 : p \in DOMAIN fs /\ fs[p] = fs0[p]
        /\ ProvisionedAgain.fs = fs
        /\ ProvisionedAgain.ok = result[1]

\* provisioning succeeded on a folder that held a prompt and a tools file of
\* the writer and a journal, and has added the files that were missing
C31_Witness ==
    /\ sb_pc = "done"
    /\ result = Some(TRUE)
    /\ Append(WriterDir, PromptName) \in DOMAIN fs0
    /\ fs0[Append(WriterDir, PromptName)] = Mine
    /\ fs[Append(WriterDir, ToolsName)] = File(<<"read_file">>)
    /\ TeamBusPath \in DOMAIN fs0
    /\ fs[TeamBusPath] = Mine
    /\ Append(WriterDir, TranscriptName) \in DOMAIN fs \ DOMAIN fs0
    /\ Append(SupervisorDir, PromptName) \in DOMAIN fs \ DOMAIN fs0


-----------------------------------------------------------------------------
(* Properties of the notification push *)

\* an append_team_bus_entry call returns in this step
AppendReturns == Len(sink') = Len(sink) + 1

\* what the call would have left and returned with the other fate of the event
OtherFate(c) ==
    append_team_bus_entry_emitting(bus_file, c.entry, IF c.app = None THEN None
                                                       ELSE Some(~c.app[1]))

EntriesIn(file) == read_team_bus_entries(file)

\* C32: append_team_bus_entry returns success with the entry as the last
\* entry of the journal, whether the event is delivered or not; it emits one
\* event when it has a handle, and the journal holds the entry when the
\* event is emitted; the file and the result are the same for both fates
\* of the event
C32_PushNeverAffectsWrite ==
    [][AppendReturns =>
          /\ Last(sink').res.ok
          /\ appended' = Append(appended, Last(sink').entry)
          /\ EntriesIn(bus_file') = Ok(appended')
          /\ Len(Last(sink').emitted) = (IF Last(sink').app = None THEN 0 ELSE 1)
          /\ \A i \in 1..Len(Last(sink').emitted) :
                /\ Last(sink').emitted[i].payload = Last(sink').entry
                /\ Last(sink').emitted[i].file = bus_file'
          /\ OtherFate(Last(sink')).file = bus_file'
          /\ OtherFate(Last(sink')).res = Last(sink').res]_vars

\* an entry was appended with its event delivered, the next with its event
\* lost, and both are read back
C32_Witness ==
    /\ Len(sink) = 2
    /\ sink[1].app = Some(TRUE)
    /\ sink[2].app = Some(FALSE)
    /\ sink[2].res.ok
    /\ read_back # None
    /\ read_back[1].ok
    /\ read_back[1].val = <<sink[1].entry, sink[2].entry>>


(* ---------------------------------------------------------------------- *)
(* Properties of the entry types the operations journal                   *)

\* the steps get_team_status would report for world w
steps_reported(w) ==
    LET answered(res) == IF res.ok /\ res.val.is_team THEN res.val.steps ELSE <<>>
    IN answered(get_team_status(w).res)

WorldAfter == [camp |-> camp', now |-> now', uuids |-> uuids']
JournalAfter == IF camp'.bus = None THEN <<>> ELSE camp'.bus[1]

\* the inference loop of the last execute_agent_step was run and the call failed
ExecuteFailed == last_op.op = "execute_agent_step" /\ last_op.called /\ ~last_op.ok

NoStepFailed(steps) == \A i \in 1..Len(steps) : steps[i].status # "failed"

NoErrorEntry(entries) == \A i \in 1..Len(entries) : entries[i].entry_type # "Error"

\* C33: no operation appends an entry of type Error, get_team_status reports
\* no step as "failed" on the journals the operations produce, and a failed
\* execute_agent_step leaves the reported steps as they were: a step that
\* was "running" is still "running"
C33_NoErrorEntries ==
    [][/\ NoErrorEntry(Journal) /\ NoErrorEntry(JournalAfter)
       /\ ops = 0 => NoStepFailed(steps_reported(World))
       /\ NoStepFailed(steps_reported(WorldAfter))
       /\ ExecuteFailed' => steps_reported(WorldAfter) = steps_reported(World)]_vars

\* the loop of a step that was delegated has failed, and the step is still
\* reported as running
C33_Witness ==
    /\ ExecuteFailed
    /\ \E i \in 1..Len(steps_reported(World)) :
          /\ steps_reported(World)[i].status = "running"
          /\ steps_reported(World)[i].step_id = trim(last_op.step.step_id)
          /\ steps_reported(World)[i].assigned_to = last_op.agent_id


(* ---------------------------------------------------------------------- *)
(* Properties of the status of a plan right after decompose_task          *)

\* the agents get_team_status would report for world w
agents_reported(w) ==
    LET answered(res) == IF res.ok /\ res.val.is_team THEN res.val.agents ELSE <<>>
    IN answered(get_team_status(w).res)

Decomposed == last_op.op = "decompose_task" /\ last_op.ok

\* a decompose_task call that returned the error of a journal write
AppendFailed ==
    /\ last_op.op = "decompose_task" /\ ~last_op.ok
    /\ last_op.err = <<"Unable to append team bus entry">>

\* the reported steps are those of the plan, in its order, all running
AllRunning(steps, plan) ==
    /\ Len(steps) = Len(plan.steps)
    /\ \A i \in 1..Len(steps) :
          /\ steps[i].step_id = plan.steps[i].step_id
          /\ steps[i].assigned_to = plan.steps[i].assigned_to
          /\ steps[i].status = "running"

\* every reported agent that is assigned a step of the plan is working
AssignedWorking(agents, plan) ==
    \A i \in 1..Len(agents) :
        (\E k \in 1..Len(plan.steps) : plan.steps[k].assigned_to = agents[i].id)
            => agents[i].status = "working"

NoStepPending(steps) == \A i \in 1..Len(steps) : steps[i].status # "pending"

\* the claim as written: after a decompose_task call, failed ones
\* included, no step is reported as pending
C34_Original ==
    /\ Decomposed =>
          /\ AllRunning(steps_reported(World), last_op.plan)
          /\ AssignedWorking(agents_reported(World), last_op.plan)
    /\ last_op.op = "decompose_task" => NoStepPending(steps_reported(World))

\* C34: right after a successful decompose_task every step of the new plan
\* is reported as running and every agent assigned one of them as working;
\* a step is reported as pending only after a decompose_task call that
\* failed while it appended its entries, never after another operation
C34_DelegatedPlanIsRunning ==
    [][/\ Decomposed' =>
             /\ AllRunning(steps_reported(WorldAfter), last_op'.plan)
             /\ AssignedWorking(agents_reported(WorldAfter), last_op'.plan)
             /\ NoStepPending(steps_reported(WorldAfter))
       /\ (NoStepPending(steps_reported(World)) /\ ~NoStepPending(steps_reported(WorldAfter)))
             => AppendFailed']_vars

\* a plan of two steps for two agents was journaled with its delegations,
\* and nothing was executed since
C34_Witness ==
    /\ Decomposed
    /\ Len(last_op.plan.steps) = 2
    /\ last_op.plan.steps[1].assigned_to # last_op.plan.steps[2].assigned_to
    /\ AllRunning(steps_reported(World), last_op.plan)
    /\ \E i \in 1..Len(agents_reported(World)) : agents_reported(World)[i].status = "working"
    /\ Journal[Len(Journal)].entry_type = "Delegation"


(* ---------------------------------------------------------------------- *)
(* Properties of plans that replace earlier plans                          *)

\* the entries from the most recent Decomposition entry onwards
from_latest_decomposition(entries) ==
    IF \E i \in 1..Len(entries) : entries[i].entry_type = "Decomposition"
    THEN SubSeq(entries,
                CHOOSE i \in 1..Len(entries) :
                    /\ entries[i].entry_type = "Decomposition"
                    /\ \A j \in (i + 1)..Len(entries) : entries[j].entry_type # "Decomposition",
                Len(entries))
    ELSE entries

\* world w with the entries older than its current plan cut off the journal
current_plan_only(w) ==
    IF w.camp.bus = None THEN w
    ELSE [w EXCEPT !.camp.bus = Some(from_latest_decomposition(w.camp.bus[1]))]

\* the walk of the whole journal reports what the walk of the entries of
\* the current plan reports
PlansSupersede(w) == steps_reported(w) = steps_reported(current_plan_only(w))

\* the claim as written: on every journal the operations produce
C35_Original == PlansSupersede(World)

\* C35: the step statuses get_team_status reports from the whole journal
\* equal those of the walk from the most recent Decomposition entry onwards
\* after every successful decompose_task, and every operation other than a
\* decompose_task call that failed while appending its entries keeps them
\* equal, also when the plans reuse step ids
C35_PlansSupersede ==
    [][/\ Decomposed' => PlansSupersede(WorldAfter)
       /\ (PlansSupersede(World) /\ ~AppendFailed') => PlansSupersede(WorldAfter)]_vars

\* a second plan reuses the id of a step that has a Result entry under the
\* first plan, and the step is reported as running, not as complete
C35_Witness ==
    /\ Decomposed
    /\ \E i \in 1..last_op.before, k \in 1..Len(last_op.plan.steps) :
          /\ Journal[i].entry_type = "Result"
          /\ Journal[i].step_id = Some(last_op.plan.steps[k].step_id)
          /\ steps_reported(World)[k].status = "running"
    /\ \E i \in 1..last_op.before : Journal[i].entry_type = "Decomposition"
    /\ PlansSupersede(World)


(* ---------------------------------------------------------------------- *)
(* Properties of the order in which steps are executed                     *)

Executed == last_op.op = "execute_agent_step"

HasResult(entries, step_id) ==
    \E i \in 1..Len(entries) :
        entries[i].entry_type = "Result" /\ entries[i].step_id = Some(step_id)

\* the last call, had its step named no dependency
WithoutDependencies ==
    execute_agent_step(World, last_op'.agent_id, [last_op'.step EXCEPT !.depends_on = <<>>],
                       last_op'.run)

\* C36: execute_agent_step does not check depends_on: every call does what
\* the call for the same step without dependencies does, whatever Result
\* entries the journal holds, so a step can be complete before a step it
\* depends on has a Result entry
C36_DependsOnUnchecked ==
    [][Executed' =>
          /\ camp' = WithoutDependencies.w.camp
          /\ last_op'.ok = WithoutDependencies.res.ok
          /\ last_op'.err = WithoutDependencies.res.err]_vars

\* a step was executed and is reported complete while a step of the plan it
\* depends on has no Result entry and is reported running
C36_Witness ==
    /\ Executed /\ last_op.ok
    /\ \E i, k \in 1..Len(steps_reported(World)) :
          /\ i # k
          /\ steps_reported(World)[i].step_id = trim(last_op.step.step_id)
          /\ steps_reported(World)[i].status = "complete"
          /\ HasResult(Journal, steps_reported(World)[i].step_id)
          /\ \E d \in 1..Len(last_op.step.depends_on) :
                last_op.step.depends_on[d] = steps_reported(World)[k].step_id
          /\ steps_reported(World)[k].status = "running"
          /\ ~HasResult(Journal, steps_reported(World)[k].step_id)


-----------------------------------------------------------------------------
(* A reflection run in flight while steps are executed and drafts promoted *)

\* run_reflection_loop was called on the draft of the first step before
\* the first of the operations below, and awaits its first critique
RevisionInit ==
    /\ SandboxOff /\ LoopOff /\ PlanOff /\ BusOff
    /\ \E seed \in {Drafted(TRUE, 2)} :
          \E started \in {run_reflection_loop_start(seed, DraftsPrefix \o OutName, 0)} :
              /\ camp = started.w.camp
              /\ uuids = started.w.uuids
              /\ now = seed.now
              /\ refl = [pc |-> "critic", r |-> started.res.val, rounds |-> 0,
                         configured_max |-> ConfiguredMax,
                         start_len |-> Len(Journal), started_at |-> 0,
                         critic_calls |-> 1, writer_calls |-> 0,
                         call_failed |-> FALSE, result |-> <<>>]
              /\ last_op = [op |-> "run_reflection_loop", ok |-> TRUE, before |-> Len(Journal)]
    /\ ops = 0

RevisionNext ==
    \/ ExecuteAgentStep \/ PromoteArtifact
    \/ ReflectionStart \/ CriticReplies \/ WriterReplies

SpecRevision == RevisionInit /\ [][RevisionNext]_vars

\* the step is the last critic reply of a run, and the run promotes
ReachesPromotion == refl.pc = "critic" /\ refl'.pc = "returned" /\ refl'.result.ok

\* the entries appended since the run started, the step included
RunEntriesAfter == SubSeq(JournalAfter, refl.start_len + 1, Len(JournalAfter))

CritiquesAppended == {i \in 1..Len(RunEntriesAfter) : RunEntriesAfter[i].entry_type = "Critique"}

\* the Result entries the writer of the run addressed to its critic
RevisionsAppended ==
    {i \in 1..Len(RunEntriesAfter) :
        /\ RunEntriesAfter[i].entry_type = "Result"
        /\ RunEntriesAfter[i].step_id = None
        /\ RunEntriesAfter[i].from = refl.r.writer.id
        /\ RunEntriesAfter[i].to = refl.r.critic.id}

\* the file the run promoted
PromotedFile ==
    CHOOSE n \in DOMAIN camp'.promoted : PromotedPrefix \o n = refl'.result.val.promoted_path

PromotionCounts ==
    /\ Cardinality(CritiquesAppended) = refl'.result.val.rounds_completed
    /\ refl'.result.val.rounds_completed >= 1
    /\ refl'.result.val.rounds_completed <= refl.configured_max
    /\ Cardinality(RevisionsAppended) = refl'.result.val.rounds_completed - 1
    /\ \A i \in RevisionsAppended : \E k \in CritiquesAppended : k > i

\* the promoted file holds the text the last critic call was given
PromotedIsReviewed ==
    /\ \E n \in DOMAIN camp'.promoted : PromotedPrefix \o n = refl'.result.val.promoted_path
    /\ camp'.promoted[PromotedFile] = refl.r.artifact_body

\* the claim as written: in every run, whatever else acts on the draft
C37_Original == [][ReachesPromotion => PromotionCounts /\ PromotedIsReviewed]_vars

\* C37: in every run_reflection_loop that reaches promotion the Critique
\* entries appended number rounds_completed, between 1 and the configured
\* maximum, the writer Result entries number rounds_completed - 1, each
\* followed by a later Critique, and, when no other operation acted while
\* the run was in flight, the promoted file holds exactly the text the last
\* critique reviewed
C37_PromotedIsReviewed ==
    [][ReachesPromotion =>
          /\ PromotionCounts
          /\ RunAlone => PromotedIsReviewed]_vars

\* a run alone promoted the revision its second critique reviewed
C37_Witness ==
    /\ Returned /\ RunAlone
    /\ refl.result.val.rounds_completed = 2
    /\ Cardinality(EntriesSince("Critique")) = 2
    /\ Cardinality(EntriesSince("Result")) = 1
    /\ \E n \in DOMAIN camp.promoted :
          /\ PromotedPrefix \o n = refl.result.val.promoted_path
          /\ camp.promoted[n] = trim(Revision.output_text)
          /\ camp.promoted[n] = refl.r.artifact_body


-----------------------------------------------------------------------------
(* The tools of an agent: the roster entry and the tools file              *)

\* the tools file holds the list ensure_agent_scaffold wrote, which
\* read_json_file reads back; without the file the roster entry decides
parse_agent_tools_file(c, agent) ==
    IF agent.id \notin DOMAIN c.agent_dirs THEN normalize_tool_subset(agent.tool_subset)
    ELSE normalize_tool_subset(c.agent_dirs[agent.id].tools)

\* the tool subset execute_agent_step hands to run_agent_inference_loop, or
\* None where the call returns before the loop
tool_subset_offered(w, agent_id, step) ==
    LET begun(b) ==
            IF ~b.res.ok THEN None
            ELSE Some(parse_agent_tools_file(b.w.camp, b.res.val.agent))
    IN begun(execute_agent_step_begin(w, agent_id, step))

\* the writer and the critic with other tools than those of AgentInputs
RetoolInputs ==
    { [WriterInput EXCEPT !.tool_subset = <<" Read_File ">>],
      [CriticInput EXCEPT !.tool_subset = <<"WRITE_FILE">>] }

\* create_team_agent for an agent with another tool subset
RecreateTeamAgent ==
    /\ ops < MaxOps
    /\ \E agent_config \in RetoolInputs :
          \E out \in {create_team_agent(World, agent_config)} :
              DoneWith("create_team_agent", out, agent_config)

ToolsInit ==
    /\ SandboxOff /\ LoopOff /\ PlanOff /\ BusOff
    /\ \E seed \in {[camp |-> FreshCamp, now |-> 0, uuids |-> 0], Staffed} :
          /\ camp = seed.camp
          /\ uuids = seed.uuids
          /\ now = seed.now
    /\ refl = ReflIdle
    /\ last_op = NoOp
    /\ ops = 0

ToolsNext ==
    \/ CreateTeamAgent \/ RecreateTeamAgent \/ RemoveTeamAgent
    \/ ExecuteAgentStep

SpecTools == ToolsInit /\ [][ToolsNext]_vars

PersistedAfter == IF camp'.team_json = None THEN <<>> ELSE camp'.team_json[1].agents

\* the step is a successful create_team_agent for an agent of the roster
Replaces ==
    /\ Creates /\ last_op'.ok
    /\ \E i \in 1..Len(PersistedAgents) : PersistedAgents[i].id = trim(last_op'.input.id)

\* the step is a successful create_team_agent for an agent not in the roster
\* and without a folder
Provisions ==
    /\ Creates /\ last_op'.ok
    /\ trim(last_op'.input.id) \notin DOMAIN camp.agent_dirs

\* a step, assigned to the agent, that passes the checks of execute_agent_step
StepFor(agent_id) == [StepOne EXCEPT !.assigned_to = agent_id]

\* C38: create_team_agent for an agent of the roster stores the new
\* tool_subset in the roster and leaves the tools file as it is; the subset
\* execute_agent_step hands to the inference loop is that of the tools
\* file, so it is the same before and after the replacement; a tools file
\* is written only for an agent folder that did not exist
C38_ToolsFileOutlivesRoster ==
    [][/\ \A id \in DOMAIN camp.agent_dirs \cap DOMAIN camp'.agent_dirs :
             camp'.agent_dirs[id].tools = camp.agent_dirs[id].tools
       /\ Replaces =>
             /\ \E i \in 1..Len(PersistedAfter) :
                   PersistedAfter[i] = StoredAgent(last_op'.input)
             /\ tool_subset_offered(WorldAfter, last_op'.input.id,
                                    StepFor(trim(last_op'.input.id)))
                  = tool_subset_offered(World, last_op'.input.id,
                                        StepFor(trim(last_op'.input.id)))
             /\ tool_subset_offered(WorldAfter, last_op'.input.id,
                                    StepFor(trim(last_op'.input.id)))
                  = Some(normalize_tool_subset(camp.agent_dirs[trim(last_op'.input.id)].tools))
       /\ Provisions =>
             tool_subset_offered(WorldAfter, last_op'.input.id,
                                 StepFor(trim(last_op'.input.id)))
                = Some(normalize_tool_subset(last_op'.input.tool_subset))]_vars

\* the writer was replaced with other tools: the roster names read_file,
\* the tools file and the tools offered are still write_file and shell
C38_Witness ==
    /\ last_op.op = "create_team_agent" /\ last_op.ok
    /\ last_op.input \in RetoolInputs
    /\ \E i \in 1..Len(PersistedAgents) :
          /\ PersistedAgents[i].id = WriterId
          /\ PersistedAgents[i].tool_subset = <<"read_file">>
    /\ camp.agent_dirs[WriterId].tools = <<"write_file", "shell">>
    /\ tool_subset_offered(World, WriterId, StepOne) = Some(<<"write_file", "shell">>)


-----------------------------------------------------------------------------
(* create_team_agent calls that overlap: team.json is read by one call and *)
(* written by another before the first writes                              *)

\* create_team_agent up to its save_team_config call: the configuration is
\* loaded and the roster is changed in memory
create_team_agent_load(w, agent_config) ==
    LET placed(l, normalized, i) ==
            [w |-> [w EXCEPT !.camp = l.camp],
             res |-> Ok([team_config |->
                             [l.config EXCEPT !.agents =
                                 sort_agents(IF i = 0 THEN Append(l.config.agents, normalized)
                                             ELSE [l.config.agents EXCEPT ![i] = normalized],
                                             <<>>)],
                         normalized |-> normalized])]
        checked(l, agent_id) ==
            IF ~agent_id.ok THEN failed(w, l, agent_id.err)
            ELSE IF /\ Len(l.config.agents) >= TEAM_MAX_AGENTS
                    /\ find_agent_index(l.config.agents, agent_id.val) = 0
            THEN failed(w, l, <<"A team can have at most 8 agents. Remove one before adding another.">>)
            ELSE IF trim(agent_config.role) = <<>>
            THEN failed(w, l, <<"agent_config.role is required.">>)
            ELSE IF trim(agent_config.model) = <<>>
            THEN failed(w, l, <<"agent_config.model is required.">>)
            ELSE placed(l,
                        [id |-> agent_id.val,
                         role |-> trim(agent_config.role),
                         model |-> trim(agent_config.model),
                         tool_subset |-> normalize_tool_subset(agent_config.tool_subset),
                         description |-> trim(agent_config.description)],
                        find_agent_index(l.config.agents, agent_id.val))
        loaded(l) == checked(l, validate_simple_identifier(agent_config.id, "agent_config.id"))
    IN loaded(load_team_config(w))

\* the rest of create_team_agent, had it added its agent to the roster it
\* finds in team.json when it saves
create_team_agent_save_merging(w, team_config, normalized) ==
    LET persisted == IF w.camp.team_json = None THEN <<>> ELSE w.camp.team_json[1].agents
    IN [w |-> [w EXCEPT !.camp =
                  ensure_agent_scaffold(
                      save_team_config(w.camp,
                                       [team_config EXCEPT !.agents =
                                           sort_agents(Append(persisted, normalized), <<>>)],
                                       w.now),
                      normalized)],
        res |-> Ok(normalized)]

\* the rest of create_team_agent: the roster held in memory replaces
\* team.json, whatever the file holds by now
create_team_agent_save(w, team_config, normalized) ==
    [w |-> [w EXCEPT !.camp =
               ensure_agent_scaffold(save_team_config(w.camp, team_config, w.now), normalized)],
     res |-> Ok(normalized)]

OverlapInputs ==
    { [CriticInput EXCEPT !.id = <<"x">>], [CriticInput EXCEPT !.id = <<"y">>], WriterInput,
      [CriticInput EXCEPT !.role = <<" ">>] }

OverlapSeeds ==
    {[camp |-> FreshCamp, now |-> 0, uuids |-> 0], Staffed, FullRoster,
     remove_team_agent(FullRoster, <<"e">>).w}

OverlapInit ==
    /\ SandboxOff /\ LoopOff /\ PlanOff /\ BusOff
    /\ \E seed \in OverlapSeeds :
          /\ camp = seed.camp
          /\ uuids = seed.uuids
          /\ now = seed.now
    /\ refl = ReflIdle
    /\ last_op = NoOp
    /\ ops = 0

OverlapUnchanged ==
    UNCHANGED <<now, refl, sbVars, loop_pc, requests, tool_subset, offered, response,
                turn_msgs, final_output, total_usage, planVars, busVars>>

\* a create_team_agent call reads team.json
CreateLoads ==
    /\ ops < MaxOps
    /\ \E agent_config \in OverlapInputs :
          \E out \in {create_team_agent_load(World, agent_config)} :
              /\ camp' = out.w.camp
              /\ uuids' = out.w.uuids
              /\ running' = Append(running,
                                   [pc |-> IF out.res.ok THEN "loaded" ELSE "returned",
                                    input |-> agent_config, held |-> out.res.val,
                                    ok |-> out.res.ok,
                                    alone |-> \A i \in 1..Len(running) : running[i].pc = "returned",
                                    atomic |-> create_team_agent(World, agent_config)])
              /\ last_op' = [op |-> "create_team_agent_load", ok |-> out.res.ok,
                             before |-> Len(Journal), err |-> out.res.err,
                             input |-> agent_config]
    /\ ops' = ops + 1
    /\ OverlapUnchanged

\* a create_team_agent call writes team.json and returns
CreateSaves ==
    /\ \E i \in 1..Len(running) :
          /\ running[i].pc = "loaded"
          /\ \E out \in {create_team_agent_save(World, running[i].held.team_config,
                                                running[i].held.normalized)} :
                /\ camp' = out.w.camp
                /\ uuids' = out.w.uuids
                /\ running' = [running EXCEPT ![i].pc = "returned", ![i].ok = out.res.ok,
                                              ![i].alone = @ /\ Len(running) = i]
                /\ last_op' = [op |-> "create_team_agent", ok |-> out.res.ok,
                               before |-> Len(Journal), err |-> out.res.err,
                               input |-> running[i].input]
    /\ ops' = ops
    /\ OverlapUnchanged

OverlapNext == CreateLoads \/ CreateSaves

SpecOverlap == OverlapInit /\ [][OverlapNext]_vars

\* the call at position i returned and no other call ran between its read
\* and its write
ReturnedAlone(i) == running[i].pc = "returned" /\ running[i].ok /\ running[i].alone

\* C39: whatever create_team_agent calls overlap, team.json never holds more
\* than 8 agents nor two agents of one id, and a call that ran with no
\* other call between its read and its write leaves what the whole
\* operation leaves
C39_RosterBoundsUnderOverlap ==
    /\ Len(PersistedAgents) <= TEAM_MAX_AGENTS
    /\ \A i, j \in 1..Len(PersistedAgents) :
          i < j => PersistedAgents[i].id # PersistedAgents[j].id
    /\ \A i \in 1..Len(running) :
          (ReturnedAlone(i) /\ i = Len(running) /\ last_op.op = "create_team_agent")
              => camp = running[i].atomic.w.camp

\* two calls for different ids overlapped and both returned success; the
\* roster holds the agent of the second but not that of the first
C39_Witness ==
    /\ Len(running) = 2
    /\ running[1].pc = "returned" /\ running[1].ok
    /\ running[2].pc = "returned" /\ running[2].ok
    /\ trim(running[1].input.id) # trim(running[2].input.id)
    /\ trim(running[1].input.id) \notin RosterIds
    /\ trim(running[2].input.id) \in RosterIds
    /\ trim(running[1].input.id) \in DOMAIN camp.agent_dirs

====
